---- MODULE Spec2Model ----
(***************************************************************************)
(* Update dispatch engine of workergram (src/bot.ts): the handler registry *)
(* of one Bot, onUpdate / onCommand registration, createContext and the    *)
(* processUpdate loop.  JavaScript runs each synchronous segment to        *)
(* completion; other code (registrations, other processUpdate calls) runs  *)
(* only while a call is suspended at `await handler(ctx)`.  `running`      *)
(* names the call that is inside a synchronous segment (0: none).          *)
(***************************************************************************)
EXTENDS Integers, Sequences, FiniteSets, TLC

\* ---------------------------------------------------------------- bounds
MaxEntries   == 2    \* registrations accepted into the registry
MaxCalls     == 1    \* processUpdate calls made on the Bot (Spec)
MaxConcCalls == 2    \* processUpdate calls in flight together (SpecConc)

VARIABLES handlers, regResult, calls, running, contexts, peer, fx, objs
vars == <<handlers, regResult, calls, running, contexts, peer, fx, objs>>

\* ------------------------------------------------------------- text
\* A string is a tuple of one-character strings.
WordChars == {"a", "b", "e", "g", "i", "m", "n", "o", "r", "s", "t", "x", "y",
              "S", "_"}
SpaceChars == {" ", "\n"}
\* the characters `.` does not match
LineTerminators == {"\n"}

T_start     == <<"/", "s", "t", "a", "r", "t">>
T_starting  == <<"/", "s", "t", "a", "r", "t", "i", "n", "g">>
T_startBot  == <<"/", "s", "t", "a", "r", "t", "@", "m", "y", "b", "o", "t">>
T_startArg  == <<"/", "s", "t", "a", "r", "t", " ", "e", "x", "t", "r", "a",
                 " ", "t", "e", "x", "t">>
T_plain     == <<"s", "t", "a", "r", "t">>
N_start     == <<"s", "t", "a", "r", "t">>
T_startBreak == <<"/", "s", "t", "a", "r", "t", "\n", "b">>
T_startLines == <<"/", "s", "t", "a", "r", "t", " ", "a", "\n", "b">>

\* ------------------------------------------------------------- updates
\* An update is the tuple of its own properties in Object.keys order; each
\* property is a key and a value.  A value is falsy (null / undefined / 0)
\* or an object, of which the model keeps the nested members the code reads.
Val(truthy, hasText, text, chat, from, member) ==
    [truthy |-> truthy, hasText |-> hasText, text |-> text,
     chat |-> chat, from |-> from, member |-> member]

Falsy     == Val(FALSE, FALSE, <<>>, "none", FALSE, FALSE)
IdVal     == Val(TRUE, FALSE, <<>>, "none", FALSE, FALSE)
Msg(t, c) == Val(TRUE, TRUE, t, c, TRUE, FALSE)
Cbq       == Val(TRUE, FALSE, <<>>, "private", TRUE, FALSE)
Member    == Val(TRUE, FALSE, <<>>, "group", TRUE, TRUE)
Inline    == Val(TRUE, FALSE, <<>>, "none", TRUE, FALSE)
Other     == Val(TRUE, FALSE, <<>>, "none", FALSE, FALSE)

F(k, v) == [key |-> k, val |-> v]

BaseUpdates == <<
    <<F("update_id", IdVal), F("message", Msg(T_start, "private"))>>,
    <<F("update_id", IdVal), F("callback_query", Cbq)>>,
    <<F("update_id", IdVal), F("callback_query", Cbq),
      F("message", Msg(T_starting, "group"))>>,
    <<F("update_id", IdVal), F("message", Falsy), F("chat_member", Member)>>,
    <<F("update_id", IdVal), F("chosen_inline_result", Inline),
      F("inline_query", Inline)>>,
    <<F("update_id", IdVal), F("chosen_inline_result", Inline)>>,
    <<F("update_id", IdVal)>>,
    <<F("update_id", IdVal), F("unknown_field", Other)>>,
    <<F("update_id", IdVal), F("edited_message", Msg(T_start, "private"))>>,
    <<F("update_id", IdVal), F("message", Msg(T_start, "none"))>>,
    <<F("update_id", IdVal), F("chat_member", Member),
      F("callback_query", Cbq)>>
>>

\* messages of chat 42 with the texts a command handler is tried on
CommandMsg(t) == Msg(t, "private") @@ [chatId |-> 42]
CommandUpdates == <<
    <<F("update_id", IdVal), F("message", CommandMsg(T_start))>>,
    <<F("update_id", IdVal), F("message", CommandMsg(T_startBot))>>,
    <<F("update_id", IdVal), F("message", CommandMsg(T_startArg))>>,
    <<F("update_id", IdVal), F("message", CommandMsg(T_startBreak))>>,
    <<F("update_id", IdVal), F("message", CommandMsg(T_startLines))>>,
    <<F("update_id", IdVal), F("message", CommandMsg(T_starting))>>,
    <<F("update_id", IdVal), F("message", CommandMsg(T_plain))>>
>>

Updates == BaseUpdates \o CommandUpdates
UpdateIds == 1..Len(BaseUpdates)
CommandUpdateIds == (Len(BaseUpdates) + 1)..Len(Updates)

\* update[key]: the value of the property, undefined (falsy) when absent
Get(u, key) ==
    IF \E p \in 1..Len(u) : u[p].key = key
    THEN u[CHOOSE p \in 1..Len(u) : u[p].key = key].val
    ELSE Falsy

\* `"key" in update && update.key`
Has(u, key) == Get(u, key).truthy


\* ------------------------------------------------------------- filters
\* A FilterFunction is a predicate on the update with an optional
\* compatibleEvents property (tagged / tag).
Filter(type, tagged, tag, pred, name, extra) ==
    [type |-> type, tagged |-> tagged, tag |-> tag, pred |-> pred,
     name |-> name, extra |-> extra]

NoFilter == Filter("none", FALSE, {}, "-", <<>>, "-")
Custom(pred) == Filter("custom", FALSE, {}, pred, <<>>, "-")
CustomWithEvents(pred, kinds) == Filter("custom", TRUE, kinds, pred, <<>>, "-")

\* a user predicate: its result on the update, or "throw"; "truthy" and
\* "falsy" are results that are not booleans (1, "text" / undefined, "")
EvalPred(pred, u) ==
    CASE pred = "true"       -> "true"
      [] pred = "false"      -> "false"
      [] pred = "hasMessage" -> IF Has(u, "message") THEN "true" ELSE "false"
      [] pred = "throws"     -> "throw"
      [] pred = "truthy"     -> "truthy"
      [] pred = "falsy"      -> "falsy"

RECURSIVE AllWord(_)
AllWord(s) == IF s = <<>> THEN TRUE
              ELSE Head(s) \in WordChars /\ AllWord(Tail(s))

IsPrefix(p, s) == Len(p) <= Len(s) /\ SubSeq(s, 1, Len(p)) = p

\* variant: the pattern ends after the optional mention
CommandRegexMatches_open(text, command) ==
    IsPrefix(<<"/">> \o command, text)

\* text.match(new RegExp(`^\\/${command}(?:@\\w+)?(?:\\s|$)`)) != null
CommandRegexMatches(text, command) ==
    LET pre  == <<"/">> \o command
        rest == SubSeq(text, Len(pre) + 1, Len(text))
        EndOk(r) == r = <<>> \/ Head(r) \in SpaceChars
    IN  /\ IsPrefix(pre, text)
        /\ \/ EndOk(rest)
           \/ /\ rest # <<>>
              /\ Head(rest) = "@"
              /\ \E n \in 1..(Len(rest) - 1) :
                    /\ AllWord(SubSeq(rest, 2, n + 1))
                    /\ EndOk(SubSeq(rest, n + 2, Len(rest)))

\* filters.command(command)
command(name) == Filter("command", FALSE, {}, "-", name, "-")

CommandFilterResult(name, u) ==
    IF ~Has(u, "message") \/ ~Get(u, "message").hasText THEN "false"
    ELSE IF CommandRegexMatches(Get(u, "message").text, name) THEN "true"
    ELSE "false"

\* ------------------------------------------------------ primitive filters
\* Further members of the values of an update, which the primitive filters
\* read: chat.id, from.id, callback_query.data, callback_query.message (its
\* chat is then `chat`), message.new_chat_members.length,
\* message.left_chat_member, and old_chat_member / new_chat_member of a
\* chat_member value (status, is_member).
NoExtra == [chatId |-> 0, fromId |-> 0, hasData |-> FALSE, data |-> <<>>,
            hasMessage |-> FALSE, newMembers |-> 0, leftMember |-> FALSE,
            oldStatus |-> "none", newStatus |-> "none", isMember |-> TRUE]
Full(v) == v @@ NoExtra

\* a JavaScript value given as argument: a number or an array of numbers
Num(n) == [t |-> "number", v |-> n]
Arr(s) == [t |-> "array", v |-> s]

\* `n === arg` for a number n: an array is never equal to a number
StrictEq(n, arg) == arg.t = "number" /\ arg.v = n

\* the factories; none of them sets compatibleEvents on what it returns.
\* args: the arguments of the call, of which the code reads the first
text(s) == Filter("text", FALSE, {}, "-", s, "-")
callbackData(d) == Filter("callbackData", FALSE, {}, "-", d, "-")
chatType(args) == Filter("chatType", FALSE, {}, "-", <<>>, args)
newChatMembers == Filter("newChatMembers", FALSE, {}, "-", <<>>, "-")
leftChatMember == Filter("leftChatMember", FALSE, {}, "-", <<>>, "-")
chatId(arg) == Filter("chatId", FALSE, {}, "-", <<>>, arg)
userId(arg) == Filter("userId", FALSE, {}, "-", <<>>, arg)

\* variant: the text is compared after trimming
TextFilterResult_trimmed(s, u) ==
    LET m == Get(u, "message")
        Trim(t) == SelectSeq(t, LAMBDA ch : ch \notin SpaceChars)
    IN  IF Has(u, "message") /\ m.hasText /\ Trim(m.text) = s
        THEN "true" ELSE "false"

\* "message" in update && update.message != null && "text" in update.message
\*   && update.message.text != null && update.message.text === text
TextFilterResult(s, u) ==
    LET m == Get(u, "message")
    IN  IF Has(u, "message") /\ m.hasText /\ m.text = s
        THEN "true" ELSE "false"

\* "callback_query" in update && update.callback_query != null
\*   && update.callback_query.data === data
CallbackDataResult(d, u) ==
    LET q == Get(u, "callback_query")
    IN  IF Has(u, "callback_query") /\ q.hasData /\ q.data = d
        THEN "true" ELSE "false"

\* the if / else-if chain of chatType and chatId: the value whose chat is
\* taken ("none": the final else)
ChatHolder(u) ==
    IF Has(u, "message") THEN "message"
    ELSE IF Has(u, "callback_query") /\ Get(u, "callback_query").hasMessage
         THEN "callback_query"
    ELSE IF Has(u, "chat_member") THEN "chat_member"
    ELSE IF Has(u, "my_chat_member") THEN "my_chat_member"
    ELSE "none"

\* chat.type === type; reading .type of a missing chat throws
ChatTypeResult(args, u) ==
    LET k == ChatHolder(u)
    IN  IF k = "none" THEN "false"
        ELSE IF Get(u, k).chat = "none" THEN "throw"
        ELSE IF args # <<>> /\ Get(u, k).chat = args[1] THEN "true"
        ELSE "false"

\* chat.id === chatId
ChatIdResult(arg, u) ==
    LET k == ChatHolder(u)
    IN  IF k = "none" THEN "false"
        ELSE IF Get(u, k).chat = "none" THEN "throw"
        ELSE IF StrictEq(Get(u, k).chatId, arg) THEN "true"
        ELSE "false"

\* variant: callback_query is looked at before message
UserHolder_reordered(u) ==
    IF Has(u, "callback_query") THEN "callback_query"
    ELSE IF Has(u, "message") THEN "message"
    ELSE IF Has(u, "chat_member") THEN "chat_member"
    ELSE IF Has(u, "my_chat_member") THEN "my_chat_member"
    ELSE "none"

\* the if / else-if chain of userId: the value whose `from` is taken
UserHolder(u) ==
    IF Has(u, "message") THEN "message"
    ELSE IF Has(u, "callback_query") THEN "callback_query"
    ELSE IF Has(u, "chat_member") THEN "chat_member"
    ELSE IF Has(u, "my_chat_member") THEN "my_chat_member"
    ELSE "none"

\* user?.id === userId
UserIdResult(arg, u) ==
    LET k == UserHolder(u)
    IN  IF k = "none" THEN "false"
        ELSE IF Get(u, k).from /\ StrictEq(Get(u, k).fromId, arg) THEN "true"
        ELSE "false"

\* "message" in update && ... && update.message.new_chat_members.length > 0
NewChatMembersResult(u) ==
    IF Has(u, "message") /\ Get(u, "message").newMembers > 0
    THEN "true" ELSE "false"

\* "message" in update && ... && update.message.left_chat_member != null
LeftChatMemberResult(u) ==
    IF Has(u, "message") /\ Get(u, "message").leftMember
    THEN "true" ELSE "false"

\* filters.memberStatusChange(statusChange)
memberStatusChange(change) ==
    Filter("memberStatusChange", FALSE, {}, "-", <<>>, change)

\* the switch on statusChange, given the old and the new status
StatusChangeHolds(change, old, new) ==
    CASE change = "join" ->
           /\ old \in {"left", "kicked"}
           /\ new \in {"member", "administrator", "restricted"}
      [] change = "leave" ->
           /\ old \in {"member", "administrator", "restricted"}
           /\ new \in {"left", "kicked"}
      [] change = "promote" ->
           /\ old \in {"member", "restricted"}
           /\ new = "administrator"
      [] change = "demote" ->
           /\ old = "administrator"
           /\ new \in {"member", "restricted"}
      [] OTHER -> FALSE

\* variant: kicked does not count as leaving
MemberStatusChangeResult_leftOnly(change, u) ==
    LET cm == IF Has(u, "chat_member") THEN Get(u, "chat_member")
              ELSE Get(u, "my_chat_member")
    IN  IF ~Has(u, "chat_member") /\ ~Has(u, "my_chat_member") THEN "false"
        ELSE IF ~cm.member THEN "throw"
        ELSE IF /\ StatusChangeHolds(change, cm.oldStatus, cm.newStatus)
                /\ ~(change = "leave" /\ cm.newStatus = "kicked")
             THEN "true"
        ELSE "false"

\* chatMember = update.chat_member || update.my_chat_member; reading
\* .status of a missing old_chat_member / new_chat_member throws
MemberStatusChangeResult(change, u) ==
    LET cm == IF Has(u, "chat_member") THEN Get(u, "chat_member")
              ELSE Get(u, "my_chat_member")
    IN  IF ~Has(u, "chat_member") /\ ~Has(u, "my_chat_member") THEN "false"
        ELSE IF ~cm.member THEN "throw"
        ELSE IF StatusChangeHolds(change, cm.oldStatus, cm.newStatus)
             THEN "true"
        ELSE "false"

\* filter(update): "true", "false" or "throw"
EvalFilter(f, u) ==
    CASE f.type = "custom"   -> EvalPred(f.pred, u)
      [] f.type = "command"  -> CommandFilterResult(f.name, u)
      [] f.type = "text"     -> TextFilterResult(f.name, u)
      [] f.type = "callbackData" -> CallbackDataResult(f.name, u)
      [] f.type = "chatType" -> ChatTypeResult(f.extra, u)
      [] f.type = "chatId"   -> ChatIdResult(f.extra, u)
      [] f.type = "userId"   -> UserIdResult(f.extra, u)
      [] f.type = "newChatMembers" -> NewChatMembersResult(u)
      [] f.type = "leftChatMember" -> LeftChatMemberResult(u)
      [] f.type = "memberStatusChange" -> MemberStatusChangeResult(f.extra, u)
      [] f.type = "combined" ->
            IF CommandFilterResult(f.name, u) = "false" THEN "false"
            ELSE EvalPred(f.extra, u)
      [] OTHER -> "true"

\* JavaScript truthiness of a result
TruthyRes == {"true", "truthy"}
FalsyRes == {"false", "falsy"}

\* the filter a combinator returns: a new closure over its operands, which
\* carries no compatibleEvents property
Comb(type, args) ==
    [type |-> type, tagged |-> FALSE, tag |-> {}, pred |-> "-",
     name |-> <<>>, extra |-> "-", args |-> args]

\* filters.and(filters), filters.or(filters), filters.not(filter)
and(fs) == Comb("and", fs)
or(fs) == Comb("or", fs)
not(f) == Comb("not", <<f>>)

\* what a call of a filter gives: its result or "throw", and the user
\* predicates it evaluated, in order
Ret(res, trace) == [res |-> res, trace |-> trace]

RECURSIVE Call(_, _), EveryFrom(_, _, _, _), SomeFrom(_, _, _, _),
          MapFrom(_, _, _, _)

\* Array.prototype.every from index i: stops at the first falsy result
EveryFrom(fs, i, u, tr) ==
    IF i > Len(fs) THEN Ret("true", tr)
    ELSE LET r == Call(fs[i], u)
         IN  IF r.res = "throw" THEN Ret("throw", tr \o r.trace)
             ELSE IF r.res \in FalsyRes THEN Ret("false", tr \o r.trace)
             ELSE EveryFrom(fs, i + 1, u, tr \o r.trace)

\* Array.prototype.some from index i: stops at the first truthy result
SomeFrom(fs, i, u, tr) ==
    IF i > Len(fs) THEN Ret("false", tr)
    ELSE LET r == Call(fs[i], u)
         IN  IF r.res = "throw" THEN Ret("throw", tr \o r.trace)
             ELSE IF r.res \in TruthyRes THEN Ret("true", tr \o r.trace)
             ELSE SomeFrom(fs, i + 1, u, tr \o r.trace)

\* all operands from index i evaluated, whatever they return
MapFrom(fs, i, u, acc) ==
    IF i > Len(fs) THEN acc
    ELSE LET r == Call(fs[i], u)
         IN  IF r.res = "throw" THEN Ret("throw", acc.trace \o r.trace)
             ELSE MapFrom(fs, i + 1, u,
                    Ret(IF r.res \in FalsyRes THEN "false" ELSE acc.res,
                        acc.trace \o r.trace))

\* variants of and: built on some; all operands evaluated before combining
every_some(fs, u) == SomeFrom(fs, 1, u, <<>>)
every_eager(fs, u) == MapFrom(fs, 1, u, Ret("true", <<>>))

\* filters.every((filter) => filter(update))
every(fs, u) == EveryFrom(fs, 1, u, <<>>)

\* variant of or: built on every
some_every(fs, u) == EveryFrom(fs, 1, u, <<>>)

\* filters.some((filter) => filter(update))
some(fs, u) == SomeFrom(fs, 1, u, <<>>)

\* variant of not: the result of the operand is returned as it is
negate_same(f, u) == Call(f, u)

\* !filter(update)
negate(f, u) ==
    LET r == Call(f, u)
    IN  IF r.res = "throw" THEN r
        ELSE Ret(IF r.res \in TruthyRes THEN "false" ELSE "true", r.trace)

\* filter(update) for any filter value
Call(f, u) ==
    CASE f.type = "and" -> every(f.args, u)
      [] f.type = "or"  -> some(f.args, u)
      [] f.type = "not" -> negate(f.args[1], u)
      [] OTHER          -> Ret(EvalFilter(f, u), <<f.pred>>)

\* the filters callers register with
FilterPool == { NoFilter,
                Custom("false"),
                Custom("throws"),
                CustomWithEvents("hasMessage", {"message"}),
                CustomWithEvents("true", {"callback_query", "chat_member"}) }

\* ------------------------------------------------------------- registry
RegKinds == {"message", "callback_query", "chat_member"}

\* this.handlers.get(kind) || []
List(h, kind) == IF kind \in DOMAIN h THEN h[kind] ELSE <<>>

RECURSIVE SumLen(_, _)
SumLen(h, ks) == IF ks = {} THEN 0
                 ELSE LET k == CHOOSE x \in ks : TRUE
                      IN  Len(h[k]) + SumLen(h, ks \ {k})
Registered(h) == SumLen(h, DOMAIN h)

\* variant: the compatibility check is missing
Incompatible_unchecked(event, filter) == FALSE

\* filter?.compatibleEvents && !filter.compatibleEvents.includes(event)
Incompatible(event, filter) ==
    filter.type # "none" /\ filter.tagged /\ event \notin filter.tag

\* variant: the list of the event is set anew on every registration
Push_reset(h, event, handler, filter) ==
    (event :> <<[handler |-> handler, filter |-> filter]>>) @@ h

\* handlers.has(event) || handlers.set(event, []); handlers.get(event).push
Push(h, event, handler, filter) ==
    LET entry == [handler |-> handler, filter |-> filter]
    IN  IF event \in DOMAIN h
        THEN [h EXCEPT ![event] = Append(@, entry)]
        ELSE h @@ (event :> <<entry>>)

\* onUpdate: the registry after the call and whether the call threw
onUpdate(h, event, handler, filter) ==
    IF Incompatible(event, filter)
    THEN [handlers |-> h, threw |-> TRUE]
    ELSE [handlers |-> Push(h, event, handler, filter), threw |-> FALSE]

\* variant: the additional filter is dropped
CombinedFilter_commandOnly(name, filter) == command(name)

\* variant: the combined filter keeps the tag of the additional filter
CombinedFilter_inheritTag(name, filter) ==
    IF filter.type # "none"
    THEN Filter("combined", TRUE,
                IF filter.tagged THEN filter.tag ELSE {"message"},
                "-", name, filter.pred)
    ELSE command(name)

\* onCommand: the combined filter handed to onUpdate("message", ...)
CombinedFilter(name, filter) ==
    IF filter.type # "none"
    THEN Filter("combined", TRUE, {"message"}, "-", name, filter.pred)
    ELSE command(name)

onCommand(h, name, handler, filter) ==
    onUpdate(h, "message", handler, CombinedFilter(name, filter))

\* ------------------------------------------------------------- context
\* variant: callback_query is tested before chat_member
ContextVariant_reordered(u) ==
    IF Has(u, "message") THEN "message"
    ELSE IF Has(u, "callback_query") THEN "callback_query"
    ELSE IF Has(u, "chat_member") THEN "chat_member"
    ELSE IF Has(u, "inline_query") THEN "inline_query"
    ELSE IF Has(u, "chosen_inline_result") THEN "chosen_inline_result"
    ELSE "generic"

ContextVariant(u) ==
    IF Has(u, "message") THEN "message"
    ELSE IF Has(u, "chat_member") THEN "chat_member"
    ELSE IF Has(u, "callback_query") THEN "callback_query"
    ELSE IF Has(u, "inline_query") THEN "inline_query"
    ELSE IF Has(u, "chosen_inline_result") THEN "chosen_inline_result"
    ELSE "generic"

\* variant: an update of no known kind is refused
ConstructorThrows_strict(variant, u) == variant = "generic"

\* the context constructors dereference nested members of the update
ConstructorThrows(variant, u) ==
    CASE variant = "message" -> Get(u, "message").chat = "none"
      [] variant = "chat_member" ->
            ~Get(u, "chat_member").member \/ Get(u, "chat_member").chat = "none"
      [] variant = "callback_query" -> ~Get(u, "callback_query").from
      [] variant = "inline_query" -> ~Get(u, "inline_query").from
      [] variant = "chosen_inline_result" -> ~Get(u, "chosen_inline_result").from
      [] OTHER -> FALSE

createContext(u) ==
    LET v == ContextVariant(u)
    IN  [variant |-> v, threw |-> ConstructorThrows(v, u)]

\* variant: the first context built is cached and reused
NewContextId_cached(n) == IF n = 0 THEN n + 1 ELSE n

\* identity of the object a `new` / object literal allocates, given the
\* number of context objects allocated so far
NewContextId(n) == n + 1

\* a value that may be undefined
Undefined == [defined |-> FALSE, v |-> <<>>]
Defined(v) == [defined |-> TRUE, v |-> v]

\* this.text.match(/^\/([a-zA-Z0-9_]+)(?:@\w+)?(?:\s+(.*))?$/), tried when
\* the text starts with "/": group 1, or undefined when there is no match.
\* j: the last character of group 1; a: the last character of the mention;
\* k: the last character of \s+, after which `.*` must reach the end
ParseCommand(t) ==
    LET n == Len(t)
        Word(from, to) == \A p \in from..to : t[p] \in WordChars
        TailOk(a) ==
            \/ a = n
            \/ \E k \in (a + 1)..n :
                  /\ \A p \in (a + 1)..k : t[p] \in SpaceChars
                  /\ \A p \in (k + 1)..n : t[p] \notin LineTerminators
        MentionOk(j) ==
            \/ TailOk(j)
            \/ /\ j < n
               /\ t[j + 1] = "@"
               /\ \E a \in (j + 2)..n : Word(j + 2, a) /\ TailOk(a)
        ends == {j \in 2..n : Word(2, j) /\ MentionOk(j)}
    IN  IF n = 0 \/ t[1] # "/" \/ ends = {} THEN Undefined
        ELSE Defined(SubSeq(t, 2, CHOOSE j \in ends : \A i \in ends : i <= j))

\* MessageContextImpl: chatId and message.command, as the constructor sets
\* them from update.message
MessageContextImpl(u) ==
    LET m == Full(Get(u, "message"))
    IN  [chatId |-> m.chatId,
         command |-> ParseCommand(IF m.hasText THEN m.text ELSE <<>>)]

\* the members of a context that is not a MessageContextImpl are not kept
NoMessageContext == [chatId |-> 0, command |-> Undefined]

\* the context object: what it closes over, and the members the
\* constructor of its class computed
ContextObject(variant, uid) ==
    [variant |-> variant, update |-> uid,
     message |-> IF variant = "message" THEN MessageContextImpl(Updates[uid])
                 ELSE NoMessageContext]

\* variant: only the first populated field is dispatched
UpdateTypes_first(u) ==
    LET all == SelectSeq([p \in 1..Len(u) |-> u[p].key],
                   LAMBDA key : key # "update_id" /\ Get(u, key).truthy)
    IN  IF all = <<>> THEN all ELSE <<Head(all)>>

\* Object.keys(update).filter(key => key !== "update_id" && update[key])
UpdateTypes(u) ==
    SelectSeq([p \in 1..Len(u) |-> u[p].key],
              LAMBDA key : key # "update_id" /\ Get(u, key).truthy)

\* ------------------------------------------------------------- dispatch
\* One processUpdate call: its update (index into Updates), updateTypes, the
\* context it built (ctx: its place in contexts, 0 when none was built), its place in
\* the two nested loops (k: kind, i: entry) and what it has done so far.
\* startLen records the length of every list when the call was made.
\* update: the properties of the update object, to which the call, the
\* context and the filters hold a reference.

\* variant: processUpdate deletes the unpopulated properties of the update
NewCall_pruned(uid, types, ctx, status, h) ==
    [u |-> uid, update |-> SelectSeq(Updates[uid], LAMBDA f : f.val.truthy),
     types |-> types, ctx |-> ctx, status |-> status, k |-> 1, i |-> 1, log |-> <<>>,
     startLen |-> [kind \in DOMAIN h |-> Len(h[kind])]]

NewCall(uid, types, ctx, status, h) ==
    [u |-> uid, update |-> Updates[uid],
     types |-> types, ctx |-> ctx, status |-> status, k |-> 1, i |-> 1, log |-> <<>>,
     startLen |-> [kind \in DOMAIN h |-> Len(h[kind])]]

\* variant: the kinds are taken from the last key of the update to the first
Kind_reversed(cr) == cr.types[Len(cr.types) + 1 - cr.k]

\* updateType of the current iteration of the outer loop
Kind(cr) == cr.types[cr.k]

\* variant: the loop iterates a copy of the list made when the call started
IteratedList_snapshot(cr, h) ==
    SubSeq(List(h, Kind(cr)), 1,
           IF Kind(cr) \in DOMAIN cr.startLen THEN cr.startLen[Kind(cr)] ELSE 0)

\* const handlers = this.handlers.get(updateType) || []: the array of the
\* registry itself, which for...of reads entry by entry
IteratedList(cr, h) == List(h, Kind(cr))

\* variant: a false result of the filter does not skip the handler
FilterOutcome_noSkip(filter, u) ==
    IF filter.type # "none" /\ EvalFilter(filter, u) = "throw"
    THEN "throw" ELSE "invoke"

\* variant: the filter is called inside a try of its own that ignores errors
FilterOutcome_throwInvokes(filter, u) ==
    IF filter.type = "none" THEN "invoke"
    ELSE IF EvalFilter(filter, u) \in {"false", "falsy"} THEN "skip"
    ELSE "invoke"

\* lines 167-173: "invoke", "skip" (continue) or "throw" (to the catch)
FilterOutcome(filter, u) ==
    IF filter.type = "none" THEN "invoke"
    ELSE LET r == EvalFilter(filter, u)
         IN  IF r = "throw" THEN "throw"
             ELSE IF r \in {"false", "falsy"} THEN "skip" ELSE "invoke"

\* variant: a context is built for every handler
CtxPassed_perHandler(cr) == cr.ctx + Len(cr.log)

\* the argument of handler(ctx)
CtxPassed(cr) == cr.ctx

Visit(cr, entry, res) ==
    [kind |-> Kind(cr), idx |-> cr.i, handler |-> entry.handler,
     ctx |-> CtxPassed(cr), res |-> res]

\* variants of the catch: the error ends the loops; the error is rethrown
CatchError_break(cr) == [cr EXCEPT !.k = Len(cr.types) + 1]
CatchError_rethrow(cr) == [cr EXCEPT !.status = "rejected"]

\* catch (error) { console.error(...) }: the loop goes on with the next entry
CatchError(cr) == [cr EXCEPT !.i = @ + 1]

\* `continue`
Continue(cr) == [cr EXCEPT !.i = @ + 1]

\* variant: the handler's result is not awaited
AwaitHandler_forget(cr) == [cr EXCEPT !.i = @ + 1]

\* `await handler(ctx)` on a handler that returned: the call is suspended
AwaitHandler(cr) == [cr EXCEPT !.status = "awaiting"]

\* the awaited promise settled: resume after the await, or in the catch
Resume(cr, res) ==
    LET n  == Len(cr.log)
        c1 == [cr EXCEPT !.log[n].res = res, !.status = "running"]
    IN  IF res = "rejected" THEN CatchError(c1) ELSE [c1 EXCEPT !.i = @ + 1]

Runs(cr, c) == IF cr.status = "running" THEN c ELSE 0

\* ------------------------------------------------------------- instances
\* `handlers` is the Map of the Bot under study, the first Map allocated.
\* peer is another Bot: the Map its constructor assigned to this.handlers
\* (map: its identity, 0 before construction) and the contents of that Map.
NoPeer == [map |-> 0, handlers |-> <<>>]

\* variant: the registry is one Map shared by all instances
NewMapId_shared(n) == IF n = 0 THEN n + 1 ELSE n

\* this.handlers = new Map(): the identity of the Map, given the number of
\* Maps allocated so far
NewMapId(n) == n + 1

\* the registry the peer reads and writes
PeerRegistry == IF peer.map = 1 THEN handlers ELSE peer.handlers

\* ------------------------------------------------------------- filter calls
\* fx: the filter a combinator returned last, and the last call of it (u: the
\* update when it is one of Updates, else 0; upd: the update itself; res: what
\* the call returned, "-" before it; trace: the user predicates that were
\* evaluated, in order)
NoCall == [f |-> NoFilter, u |-> 0, res |-> "-", trace |-> <<>>, upd |-> <<>>]

\* ------------------------------------------------------------- objects
\* objs: the objects callers hold references to, in allocation order (heap:
\* RegExp objects with their lastIndex, and function objects with their
\* compatibleEvents property), and the last application of a filter
\* factory to such objects (made: factory, the operands, the object returned)
NoMade == [op |-> "-", args |-> <<>>, result |-> 0]
NoObjects == [heap |-> <<>>, made |-> NoMade]

\* ------------------------------------------------------------- actions
Init ==
    /\ handlers = <<>>
    /\ regResult = "none"
    /\ calls = <<>>
    /\ running = 0
    /\ contexts = <<>>
    /\ peer = NoPeer
    /\ fx = NoCall
    /\ objs = NoObjects

\* bot.onUpdate(event, handler, filter)
OnUpdate(event, filter) ==
    /\ running = 0
    /\ Registered(handlers) < MaxEntries
    /\ LET r == onUpdate(handlers, event, Registered(handlers) + 1, filter)
       IN  /\ handlers' = r.handlers
           /\ regResult' = IF r.threw THEN "threw" ELSE "ok"
    /\ UNCHANGED <<calls, running, contexts, peer, fx, objs>>

\* bot.onCommand(name, handler, filter)
OnCommand(name, filter) ==
    /\ running = 0
    /\ Registered(handlers) < MaxEntries
    /\ LET r == onCommand(handlers, name, Registered(handlers) + 1, filter)
       IN  /\ handlers' = r.handlers
           /\ regResult' = IF r.threw THEN "threw" ELSE "ok"
    /\ UNCHANGED <<calls, running, contexts, peer, fx, objs>>

\* bot.processUpdate(update), up to the first iteration of the loop
ProcessUpdate(uid, max) ==
    /\ running = 0
    /\ Len(calls) < max
    /\ LET u  == Updates[uid]
           c  == createContext(u)
           id == NewContextId(Len(contexts))
       IN  IF c.threw
           THEN /\ calls' = Append(calls, NewCall(uid, UpdateTypes(u), 0,
                                      "rejected", handlers))
                /\ UNCHANGED <<running, contexts>>
           ELSE /\ calls' = Append(calls, NewCall(uid, UpdateTypes(u), id,
                                      "running", handlers))
                /\ running' = Len(calls) + 1
                /\ contexts' = IF id > Len(contexts)
                               THEN Append(contexts, ContextObject(c.variant, uid))
                               ELSE contexts
    /\ UNCHANGED <<handlers, regResult, peer, fx, objs>>

InLoop(c) ==
    /\ c \in 1..Len(calls)
    /\ running = c
    /\ calls[c].status = "running"

AtEntry(c) ==
    /\ InLoop(c)
    /\ calls[c].k <= Len(calls[c].types)
    /\ calls[c].i <= Len(IteratedList(calls[c], handlers))

Entry(c) == IteratedList(calls[c], handlers)[calls[c].i]

SetCall(c, cr) ==
    /\ calls' = [calls EXCEPT ![c] = cr]
    /\ running' = Runs(cr, c)
    /\ UNCHANGED <<handlers, regResult, contexts, peer, fx, objs>>

\* the outer loop is exhausted: the promise resolves
Finish(c) ==
    /\ InLoop(c)
    /\ calls[c].k > Len(calls[c].types)
    /\ SetCall(c, [calls[c] EXCEPT !.status = "resolved"])

\* the inner loop is exhausted: next updateType
NextKind(c) ==
    /\ InLoop(c)
    /\ calls[c].k <= Len(calls[c].types)
    /\ calls[c].i > Len(IteratedList(calls[c], handlers))
    /\ SetCall(c, [calls[c] EXCEPT !.k = @ + 1, !.i = 1])

\* the filter returned false
SkipEntry(c) ==
    /\ AtEntry(c)
    /\ FilterOutcome(Entry(c).filter, calls[c].update) = "skip"
    /\ SetCall(c, Continue([calls[c] EXCEPT
                   !.log = Append(@, Visit(calls[c], Entry(c), "skipped"))]))

\* the filter threw
FilterThrows(c) ==
    /\ AtEntry(c)
    /\ FilterOutcome(Entry(c).filter, calls[c].update) = "throw"
    /\ SetCall(c, CatchError([calls[c] EXCEPT
                   !.log = Append(@, Visit(calls[c], Entry(c), "filterThrew"))]))

\* handler(ctx) threw before returning
HandlerThrows(c) ==
    /\ AtEntry(c)
    /\ FilterOutcome(Entry(c).filter, calls[c].update) = "invoke"
    /\ SetCall(c, CatchError([calls[c] EXCEPT
                   !.log = Append(@, Visit(calls[c], Entry(c), "threw"))]))

\* handler(ctx) returned a value or a promise, which is awaited; a promise
\* that never settles is "hung"
InvokeHandler(c, res) ==
    /\ AtEntry(c)
    /\ FilterOutcome(Entry(c).filter, calls[c].update) = "invoke"
    /\ SetCall(c, AwaitHandler([calls[c] EXCEPT
                   !.log = Append(@, Visit(calls[c], Entry(c), res))]))

\* the awaited handler completed
Settle(c, res) ==
    /\ running = 0
    /\ c \in 1..Len(calls)
    /\ calls[c].status = "awaiting"
    /\ calls[c].log[Len(calls[c].log)].res = "pending"
    /\ SetCall(c, Resume(calls[c], res))

\* the steps of call c
Dispatch(c) ==
    \/ Finish(c)
    \/ NextKind(c)
    \/ SkipEntry(c)
    \/ FilterThrows(c)
    \/ HandlerThrows(c)
    \/ \E res \in {"pending", "hung"} : InvokeHandler(c, res)
    \/ \E res \in {"resolved", "rejected"} : Settle(c, res)

Next ==
    \/ \E e \in RegKinds, f \in FilterPool : OnUpdate(e, f)
    \/ \E f \in FilterPool : OnCommand(N_start, f)
    \/ \E uid \in UpdateIds : ProcessUpdate(uid, MaxCalls)
    \/ \E c \in 1..Len(calls) : Dispatch(c)

Spec == Init /\ [][Next]_vars

\* Several processUpdate calls on the same Bot, each started while the
\* earlier ones are suspended at an await or finished.
ConcKinds == {"message", "callback_query"}
ConcFilterPool == {NoFilter, Custom("false"), Custom("throws")}
ConcUpdateIds == {1, 3}

NextConc ==
    \/ \E e \in ConcKinds, f \in ConcFilterPool : OnUpdate(e, f)
    \/ \E f \in {NoFilter} : OnCommand(N_start, f)
    \/ \E uid \in ConcUpdateIds : ProcessUpdate(uid, MaxConcCalls)
    \/ \E c \in 1..Len(calls) : Dispatch(c)

SpecConc == Init /\ [][NextConc]_vars

\* new Bot(token, update): the constructor is the first thing that happens
\* to the Bot.  It assigns a new Map to this.handlers and then calls
\* this.processUpdate(update).catch(console.error); the call is marked as
\* the constructor's (ctor).  Its loops run in the constructor's synchronous
\* segment, and a rejection is consumed by the catch.
Construct(uid) ==
    /\ running = 0
    /\ regResult = "none"
    /\ calls = <<>>
    /\ handlers' = <<>>
    /\ LET u  == Updates[uid]
           c  == createContext(u)
           id == NewContextId(Len(contexts))
       IN  IF c.threw
           THEN /\ calls' = <<NewCall(uid, UpdateTypes(u), 0, "rejected",
                                      handlers') @@ [ctor |-> TRUE]>>
                /\ UNCHANGED <<running, contexts>>
           ELSE /\ calls' = <<NewCall(uid, UpdateTypes(u), id, "running",
                                      handlers') @@ [ctor |-> TRUE]>>
                /\ running' = 1
                /\ contexts' = Append(contexts, ContextObject(c.variant, uid))
    /\ UNCHANGED <<regResult, peer, fx, objs>>

\* A Bot constructed with or without an update, handlers registered on it
\* afterwards, and later processUpdate calls.
CtorUpdateIds == {1, 3, 10}
NextCtor ==
    \/ \E uid \in CtorUpdateIds : Construct(uid)
    \/ \E e \in ConcKinds, f \in ConcFilterPool : OnUpdate(e, f)
    \/ \E uid \in ConcUpdateIds : ProcessUpdate(uid, MaxCalls + 1)
    \/ \E c \in 1..Len(calls) : Dispatch(c)
SpecCtor == Init /\ [][NextCtor]_vars

\* Command handlers tried on the texts of CommandUpdates.
CommandFilterPool == {NoFilter, CustomWithEvents("hasMessage", {"message"})}
NextCommand ==
    \/ \E f \in CommandFilterPool : OnCommand(N_start, f)
    \/ \E uid \in CommandUpdateIds : ProcessUpdate(uid, MaxCalls)
    \/ \E c \in 1..Len(calls) : Dispatch(c)
SpecCommand == Init /\ [][NextCommand]_vars

TypeOK ==
    /\ regResult \in {"none", "ok", "threw"}
    /\ running \in 0..Len(calls)
    /\ Len(calls) <= MaxCalls + MaxConcCalls
    /\ Registered(handlers) <= MaxEntries

\* ------------------------------------------------------------- properties
CallIds == 1..Len(calls)
InvokedRes == {"pending", "hung", "resolved", "rejected", "threw"}
CompletedRes == {"resolved", "rejected", "threw"}
FailedRes == {"rejected", "threw"}

\* positions of the log of cr that visit entry idx of kind
Recs(cr, kind, idx) ==
    {p \in 1..Len(cr.log) : cr.log[p].kind = kind /\ cr.log[p].idx = idx}
InvokedRecs(cr, kind, idx) ==
    {p \in Recs(cr, kind, idx) : cr.log[p].res \in InvokedRes}

\* the populated fields of the update other than update_id, in key order
PresentKinds(u) ==
    {u[p].key : p \in {q \in 1..Len(u) : u[q].key # "update_id" /\ u[q].val.truthy}}
KeyPos(u, key) == CHOOSE p \in 1..Len(u) : u[p].key = key

\* the entries of kind that were registered when the call was made
StartLen(cr, kind) == IF kind \in DOMAIN cr.startLen THEN cr.startLen[kind] ELSE 0

\* the filter of the entry is absent or returns true on the raw update
Passes(kind, idx, uid) ==
    LET f == handlers[kind][idx].filter
    IN  f.type = "none" \/ EvalFilter(f, Updates[uid]) = "true"

\* C1: within one processUpdate call a handler is started only after every
\* handler invoked before it has completed (its promise settled), and the
\* handlers of one kind are invoked in registration order.
C1_SequentialInOrder ==
    \A c \in CallIds :
      LET log == calls[c].log
      IN  \A p \in 1..Len(log), q \in 1..Len(log) :
            (p < q /\ log[p].res \in InvokedRes /\ log[q].res \in InvokedRes)
            => /\ log[p].res \in CompletedRes
               /\ log[p].kind = log[q].kind =>
                    /\ log[p].idx < log[q].idx
                    /\ log[p].handler < log[q].handler

C1_Witness ==
    \E c \in CallIds :
      LET log == calls[c].log
      IN  \E p \in 1..Len(log), q \in 1..Len(log) :
            /\ p < q
            /\ log[p].kind = log[q].kind
            /\ log[p].res = "resolved"
            /\ log[q].res \in InvokedRes

\* C2: when a handler threw or rejected, every later entry of the same kind
\* and every entry of a later present kind whose filter passes is invoked
\* exactly once in the same call, after the failure, and the failed handler
\* is invoked only once.
C2_FailureIsolated ==
    \A c \in CallIds :
      LET cr == calls[c]
          u  == Updates[cr.u]
      IN  \A p \in 1..Len(cr.log) :
            cr.log[p].res \in FailedRes =>
              /\ Cardinality(InvokedRecs(cr, cr.log[p].kind, cr.log[p].idx)) = 1
              /\ cr.status = "resolved" =>
                   \A kind \in PresentKinds(u) :
                     \A idx \in 1..StartLen(cr, kind) :
                       ( /\ \/ /\ kind = cr.log[p].kind
                               /\ idx > cr.log[p].idx
                            \/ KeyPos(u, kind) > KeyPos(u, cr.log[p].kind)
                         /\ Passes(kind, idx, cr.u) )
                       => /\ Cardinality(InvokedRecs(cr, kind, idx)) = 1
                          /\ \A q \in InvokedRecs(cr, kind, idx) : q > p

C2_Witness ==
    \E c \in CallIds :
      LET cr == calls[c]
      IN  /\ cr.status = "resolved"
          /\ \E p \in 1..Len(cr.log), q \in 1..Len(cr.log) :
                /\ p < q
                /\ cr.log[p].res \in FailedRes
                /\ cr.log[q].res \in InvokedRes

\* C3: a processUpdate call in which handlers threw or rejected is not
\* rejected: a call is rejected only when createContext threw, before any
\* entry was visited; a call that has finished its loops is resolved.
C3_HandlerFailureNotPropagated ==
    \A c \in CallIds :
      LET cr == calls[c]
      IN  /\ (\E p \in 1..Len(cr.log) : cr.log[p].res \in FailedRes)
               => cr.status # "rejected"
          /\ cr.status = "rejected" =>
               /\ cr.log = <<>>
               /\ cr.ctx = 0

C3_Witness ==
    \E c \in CallIds :
      LET cr == calls[c]
      IN  /\ cr.status = "resolved"
          /\ \E p \in 1..Len(cr.log) : cr.log[p].res = "threw"
          /\ \E p \in 1..Len(cr.log) : cr.log[p].res = "rejected"

\* C4: an onUpdate call whose filter carries a compatibleEvents tag that
\* does not contain the event throws and leaves the registry as it was, so
\* no registered entry is incompatible with its kind; the error is raised
\* by registration steps only, never by a step of processUpdate.
TagExcludes(event, f) == f.type # "none" /\ f.tagged /\ event \notin f.tag

C4_NoIncompatibleEntry ==
    \A kind \in DOMAIN handlers :
      \A idx \in 1..Len(handlers[kind]) :
        ~TagExcludes(kind, handlers[kind][idx].filter)

C4_RejectStep ==
    /\ \A e \in RegKinds, f \in FilterPool :
         (OnUpdate(e, f) /\ TagExcludes(e, f))
         => (regResult' = "threw" /\ handlers' = handlers)
    /\ calls' # calls => regResult' = regResult

C4_IncompatibleFilterRejected ==
    []C4_NoIncompatibleEntry /\ [][C4_RejectStep]_vars

C4_Witness ==
    /\ regResult = "threw"
    /\ Registered(handlers) = 1
    /\ Len(calls) = 0

\* C5: an entry is visited at most once per call; its handler is invoked
\* only if it has no filter or its filter returns true on the raw update;
\* when the call resolves, every entry of a present kind that was
\* registered when the call was made has been invoked exactly once if its
\* filter is absent or true, and not at all if its filter is false.
C5_FilterDecidesInvocation ==
    \A c \in CallIds :
      LET cr == calls[c]
          u  == Updates[cr.u]
      IN  /\ \A p \in 1..Len(cr.log) :
               /\ Cardinality(Recs(cr, cr.log[p].kind, cr.log[p].idx)) = 1
               /\ cr.log[p].res \in InvokedRes
                    => Passes(cr.log[p].kind, cr.log[p].idx, cr.u)
          /\ cr.status = "resolved" =>
               \A kind \in PresentKinds(u) :
                 \A idx \in 1..StartLen(cr, kind) :
                   LET f == handlers[kind][idx].filter
                   IN  /\ Passes(kind, idx, cr.u)
                            => Cardinality(InvokedRecs(cr, kind, idx)) = 1
                       /\ (f.type # "none" /\ EvalFilter(f, u) = "false")
                            => InvokedRecs(cr, kind, idx) = {}

C5_Witness ==
    \E c \in CallIds :
      LET cr == calls[c]
      IN  /\ cr.status = "resolved"
          /\ \E p \in 1..Len(cr.log), q \in 1..Len(cr.log) :
                /\ cr.log[p].res = "skipped"
                /\ cr.log[q].res \in InvokedRes
                /\ handlers[cr.log[q].kind][cr.log[q].idx].filter.type # "none"

\* C6: a call builds at most one context (the number of contexts built is
\* the number of calls whose createContext returned), and every handler
\* invoked in the call, whatever its kind, is given that context.
C6_OneContextPerCall ==
    /\ Len(contexts) = Cardinality({c \in CallIds : calls[c].ctx # 0})
    /\ \A c \in CallIds :
         \A p \in 1..Len(calls[c].log) :
           calls[c].log[p].res \in InvokedRes
           => (calls[c].ctx # 0 /\ calls[c].log[p].ctx = calls[c].ctx)

C6_Witness ==
    \E c \in CallIds :
      LET log == calls[c].log
      IN  \E p \in 1..Len(log), q \in 1..Len(log) :
            /\ log[p].kind # log[q].kind
            /\ log[p].res \in InvokedRes
            /\ log[q].res \in InvokedRes
            /\ log[p].ctx = log[q].ctx

\* C7: two calls never use the same context, also when one is started while
\* the other awaits a handler; the context of a call closes over the update
\* of that call, and every handler is given the context of its own call.
C7_ContextNotShared ==
    /\ \A c \in CallIds, d \in CallIds :
         (c # d /\ calls[c].ctx # 0) => calls[c].ctx # calls[d].ctx
    /\ \A c \in CallIds :
         calls[c].ctx # 0 =>
           /\ calls[c].ctx \in 1..Len(contexts)
           /\ contexts[calls[c].ctx].update = calls[c].u
           /\ \A p \in 1..Len(calls[c].log) :
                calls[c].log[p].ctx = calls[c].ctx

C7_Witness ==
    \E c \in CallIds, d \in CallIds :
      /\ c < d
      /\ calls[c].status = "awaiting"
      /\ calls[c].u # calls[d].u
      /\ \E p \in 1..Len(calls[d].log) : calls[d].log[p].res \in InvokedRes

\* C8: the variant of the context is that of the first populated field in
\* the order message, chat_member, callback_query, inline_query,
\* chosen_inline_result, and the generic one when none is populated.
Priority == <<"message", "chat_member", "callback_query", "inline_query",
              "chosen_inline_result">>

ExpectedVariant(u) ==
    LET hits == {n \in 1..Len(Priority) : Priority[n] \in PresentKinds(u)}
    IN  IF hits = {} THEN "generic"
        ELSE Priority[CHOOSE n \in hits : \A m \in hits : n <= m]

C8_VariantByPriority ==
    \A c \in CallIds :
      /\ calls[c].ctx # 0 =>
           contexts[calls[c].ctx].variant = ExpectedVariant(Updates[calls[c].u])
      /\ calls[c].ctx = 0 =>
           ExpectedVariant(Updates[calls[c].u]) # "generic"

C8_Witness ==
    \E c \in CallIds :
      LET u == Updates[calls[c].u]
      IN  /\ calls[c].ctx # 0
          /\ {"chat_member", "callback_query"} \subseteq PresentKinds(u)
          /\ contexts[calls[c].ctx].variant = "chat_member"

\* C9: when a call resolves, every entry of every populated field of the
\* update (other than update_id) that was registered when the call was made
\* has been visited: its filter evaluated or its handler invoked.
C9_AllPresentKindsDispatched ==
    \A c \in CallIds :
      LET cr == calls[c]
      IN  cr.status = "resolved" =>
            \A kind \in PresentKinds(Updates[cr.u]) :
              \A idx \in 1..StartLen(cr, kind) : Recs(cr, kind, idx) # {}

C9_Witness ==
    \E c \in CallIds :
      LET cr == calls[c]
      IN  /\ cr.status = "resolved"
          /\ Cardinality(PresentKinds(Updates[cr.u])) >= 2
          /\ \E p \in 1..Len(cr.log), q \in 1..Len(cr.log) :
                /\ cr.log[p].kind # cr.log[q].kind
                /\ cr.log[p].res \in InvokedRes
                /\ cr.log[q].res \in InvokedRes

\* C10: a call on an update with no populated field of a kind that has a
\* context or can be registered for is never rejected: it gets the generic
\* context, invokes no handler and is never suspended.
Unrecognized(u) == PresentKinds(u) \cap ({Priority[n] : n \in 1..Len(Priority)} \cup RegKinds) = {}

C10_UnrecognizedUpdateTolerated ==
    \A c \in CallIds :
      Unrecognized(Updates[calls[c].u]) =>
        /\ calls[c].status \in {"running", "resolved"}
        /\ calls[c].ctx # 0
        /\ contexts[calls[c].ctx].variant = "generic"
        /\ calls[c].log = <<>>

C10_Witness ==
    \E c \in CallIds :
      /\ PresentKinds(Updates[calls[c].u]) = {"unknown_field"}
      /\ calls[c].status = "resolved"
      /\ Registered(handlers) > 0

\* C11 (as claimed): no processUpdate call is rejected, whatever nested data
\* the populated field of the update lacks.
C11_NeverRejected ==
    \A c \in CallIds : calls[c].status # "rejected"

\* A processUpdate call under the scheduling of the event loop: a synchronous
\* segment runs on, and the promise of a handler that terminates settles.
LiveUpdateIds == {1, 3}

NextLive ==
    \/ \E e \in ConcKinds, f \in ConcFilterPool : OnUpdate(e, f)
    \/ \E f \in {NoFilter} : OnCommand(N_start, f)
    \/ \E uid \in LiveUpdateIds : ProcessUpdate(uid, MaxCalls)
    \/ \E c \in 1..Len(calls) : Dispatch(c)

SpecLive ==
    /\ Init
    /\ [][NextLive]_vars
    /\ \A c \in 1..MaxCalls : WF_vars(Dispatch(c))

\* C12: a call is resolved only when every handler it invoked has completed
\* and every matching entry registered when the call was made has been
\* invoked; a call that built its context and whose handlers all terminate
\* (none hangs) is eventually resolved.
C12_ResolvedAfterAll ==
    \A c \in CallIds :
      LET cr == calls[c]
      IN  cr.status = "resolved" =>
            /\ \A p \in 1..Len(cr.log) : cr.log[p].res \notin {"pending", "hung"}
            /\ \A kind \in PresentKinds(Updates[cr.u]) :
                 \A idx \in 1..StartLen(cr, kind) :
                   Passes(kind, idx, cr.u) =>
                     \E p \in Recs(cr, kind, idx) : cr.log[p].res \in CompletedRes

Started(c) == c \in CallIds /\ calls[c].status # "rejected"
Hung(c) == c \in CallIds /\ \E p \in 1..Len(calls[c].log) : calls[c].log[p].res = "hung"
Resolved(c) == c \in CallIds /\ calls[c].status = "resolved"

C13_Step ==
    /\ \A kind \in DOMAIN handlers :
         /\ kind \in DOMAIN handlers'
         /\ IsPrefix(handlers[kind], handlers'[kind])
    /\ calls' # calls => handlers' = handlers

C13_RegistryOnlyGrows == [][C13_Step]_vars

C13_Witness ==
    /\ \E kind \in DOMAIN handlers : Len(handlers[kind]) = 2
    /\ \E c \in CallIds :
         /\ Resolved(c)
         /\ \E p \in 1..Len(calls[c].log) : calls[c].log[p].res \in FailedRes

\* ------------------------------------------------------------- two Bots
\* new Bot(token): a second instance
NewBot ==
    /\ running = 0
    /\ peer.map = 0
    /\ peer' = [map |-> NewMapId(1), handlers |-> <<>>]
    /\ UNCHANGED <<handlers, regResult, calls, running, contexts, fx, objs>>

\* peerBot.onUpdate(event, handler, filter); the handlers registered on the
\* peer are numbered -1, -2, ...
PeerOnUpdate(event, filter) ==
    /\ running = 0
    /\ peer.map # 0
    /\ Registered(handlers) + Registered(peer.handlers) < MaxEntries
    /\ LET r == onUpdate(PeerRegistry, event,
                         0 - (Registered(PeerRegistry) + 1), filter)
       IN  IF peer.map = 1
           THEN handlers' = r.handlers /\ peer' = peer
           ELSE handlers' = handlers /\ peer' = [peer EXCEPT !.handlers = r.handlers]
    /\ UNCHANGED <<regResult, calls, running, contexts, fx, objs>>

NextPeers ==
    \/ NewBot
    \/ \E e \in ConcKinds, f \in {NoFilter, Custom("false")} : OnUpdate(e, f)
    \/ \E e \in ConcKinds : PeerOnUpdate(e, NoFilter)
    \/ \E uid \in LiveUpdateIds : ProcessUpdate(uid, MaxCalls)
    \/ \E c \in 1..Len(calls) : Dispatch(c)

SpecPeers == Init /\ [][NextPeers]_vars

\* C14: a registration on one Bot changes the registry of that Bot only; the
\* lists of the Bot under study hold, and its processUpdate calls invoke,
\* only handlers registered on it, and the peer's lists only the peer's.
C14_OwnHandlersOnly ==
    /\ \A kind \in DOMAIN handlers :
         \A idx \in 1..Len(handlers[kind]) : handlers[kind][idx].handler > 0
    /\ \A kind \in DOMAIN peer.handlers :
         \A idx \in 1..Len(peer.handlers[kind]) : peer.handlers[kind][idx].handler < 0
    /\ \A c \in CallIds :
         \A p \in 1..Len(calls[c].log) : calls[c].log[p].handler > 0

C14_Step ==
    /\ peer' # peer => handlers' = handlers
    /\ handlers' # handlers => peer' = peer

C14_RegistryPerInstance == []C14_OwnHandlersOnly /\ [][C14_Step]_vars

C14_Witness ==
    \E c \in CallIds :
      /\ Resolved(c)
      /\ \E p \in 1..Len(calls[c].log) :
            /\ calls[c].log[p].res \in InvokedRes
            /\ calls[c].log[p].kind \in DOMAIN peer.handlers
      /\ Len(calls[c].log) = Registered(handlers)

\* C15: onCommand(name, handler, extra) appends one entry to the "message"
\* list and changes no other list; the filter of that entry is true on an
\* update exactly when the update has a message, command(name) is true on it
\* and extra is absent or true on it, and is false (extra is not evaluated,
\* so it cannot throw) when command(name) is false; when a call resolves,
\* the handler of such an entry has been invoked exactly in that case.
CommandHolds(name, u) ==
    /\ Has(u, "message")
    /\ Get(u, "message").hasText
    /\ CommandRegexMatches(Get(u, "message").text, name)

C15_Step ==
    \A f \in FilterPool :
      OnCommand(N_start, f) =>
        LET old == List(handlers, "message")
            new == List(handlers', "message")
        IN  /\ Len(new) = Len(old) + 1
            /\ IsPrefix(old, new)
            /\ \A kind \in (DOMAIN handlers \cup DOMAIN handlers') \ {"message"} :
                 List(handlers', kind) = List(handlers, kind)
            /\ \A uid \in UpdateIds :
                 LET u == Updates[uid]
                     r == EvalFilter(new[Len(new)].filter, u)
                 IN  /\ r = "true" <=>
                           /\ CommandHolds(N_start, u)
                           /\ f.type = "none" \/ EvalPred(f.pred, u) = "true"
                     /\ ~CommandHolds(N_start, u) => r = "false"

C15_Invoked ==
    \A c \in CallIds :
      LET cr == calls[c]
          u  == Updates[cr.u]
      IN  \A idx \in 1..StartLen(cr, "message") :
            LET f == handlers["message"][idx].filter
            IN  f.type \in {"command", "combined"} =>
                  /\ InvokedRecs(cr, "message", idx) # {} =>
                        /\ CommandHolds(f.name, u)
                        /\ f.type = "command" \/ EvalPred(f.extra, u) = "true"
                  /\ \A p \in Recs(cr, "message", idx) :
                        ~CommandHolds(f.name, u) => cr.log[p].res = "skipped"
                  /\ ( /\ cr.status = "resolved"
                       /\ CommandHolds(f.name, u)
                       /\ f.type = "command" \/ EvalPred(f.extra, u) = "true" )
                     => Cardinality(InvokedRecs(cr, "message", idx)) = 1

C15_CommandEntry == []C15_Invoked /\ [][C15_Step]_vars

C15_Witness ==
    \E c \in CallIds :
      /\ Resolved(c)
      /\ \E p \in 1..Len(calls[c].log), q \in 1..Len(calls[c].log) :
            LET e == handlers["message"]
            IN  /\ calls[c].log[p].kind = "message"
                /\ calls[c].log[q].kind = "message"
                /\ e[calls[c].log[p].idx].filter.type = "combined"
                /\ calls[c].log[p].res \in InvokedRes
                /\ e[calls[c].log[q].idx].filter.type = "combined"
                /\ calls[c].log[q].res = "skipped"

\* ------------------------------------------------------------- combinators
MaxArgs == 2       \* length of the array given to and / or
MaxDepth == 2      \* nesting of combinators

\* the predicates given to the combinators
LeafPool == { CustomWithEvents("true", {"callback_query", "chat_member"}),
              Custom("false"),
              Custom("throws"),
              CustomWithEvents("hasMessage", {"message"}),
              Custom("truthy") }
FilterUpdateIds == {1, 2}

IsComb(f) == f.type \in {"and", "or", "not"}

RECURSIVE Depth(_), MaxDepthFrom(_, _)
MaxDepthFrom(fs, i) ==
    IF i > Len(fs) THEN 0
    ELSE LET a == Depth(fs[i])
             b == MaxDepthFrom(fs, i + 1)
         IN  IF a > b THEN a ELSE b
Depth(f) == IF IsComb(f) THEN 1 + MaxDepthFrom(f.args, 1) ELSE 0

\* filters at hand: the predicates and the filter built last
Operands ==
    LeafPool \cup (IF IsComb(fx.f) /\ Depth(fx.f) < MaxDepth THEN {fx.f} ELSE {})
ArgSeqs == UNION {[1..n -> Operands] : n \in 0..MaxArgs}

Built(f) ==
    /\ fx' = [NoCall EXCEPT !.f = f]
    /\ UNCHANGED <<handlers, regResult, calls, running, contexts, peer, objs>>

BuildAnd(fs) == Built(and(fs))
BuildOr(fs) == Built(or(fs))
BuildNot(f) == Built(not(f))

\* fx.f(update)
CallFilter(uid) ==
    /\ IsComb(fx.f)
    /\ LET r == Call(fx.f, Updates[uid])
       IN  fx' = [fx EXCEPT !.u = uid, !.res = r.res, !.trace = r.trace,
                            !.upd = Updates[uid]]
    /\ UNCHANGED <<handlers, regResult, calls, running, contexts, peer, objs>>

NextFilters ==
    \/ \E fs \in ArgSeqs : BuildAnd(fs)
    \/ \E fs \in ArgSeqs : BuildOr(fs)
    \/ \E f \in Operands : BuildNot(f)
    \/ \E uid \in FilterUpdateIds : CallFilter(uid)

SpecFilters == Init /\ [][NextFilters]_vars

Called(type) == fx.f.type = type /\ fx.u # 0
\* the result of operand i of the filter built last, on the update of the call
OperandRes(i) == Call(fx.f.args[i], Updates[fx.u]).res
Arity == Len(fx.f.args)

\* C16: and(fs) returns true on an update exactly when every filter of fs
\* returns true on it (a truthy value, for a predicate that does not return
\* a boolean); and([]) returns true on every update.
C16_AndIffEvery ==
    Called("and") =>
      /\ fx.res = "true" <=> \A i \in 1..Arity : OperandRes(i) \in TruthyRes
      /\ Arity = 0 => fx.res = "true"

C16_Witness ==
    /\ Called("and")
    /\ Arity = 2
    /\ fx.res = "true"
    /\ fx.f.args[1] # fx.f.args[2]

\* C17 (as claimed): or(fs) returns true on an update exactly when at least
\* one filter of fs returns true on it.
C17_OrIffSome ==
    Called("or") =>
      (fx.res = "true" <=> \E i \in 1..Arity : OperandRes(i) \in TruthyRes)

\* C17 (amended): or(fs) returns true exactly when some filter of fs returns
\* true and no filter before the first such filter throws; or(fs) throws when
\* a filter throws before any returned true; or([]) returns false on every
\* update.
C17_OrIffSomeBeforeThrow ==
    Called("or") =>
      /\ fx.res = "true" <=>
           \E i \in 1..Arity :
             /\ OperandRes(i) \in TruthyRes
             /\ \A j \in 1..(i - 1) : OperandRes(j) # "throw"
      /\ fx.res = "throw" <=>
           \E i \in 1..Arity :
             /\ OperandRes(i) = "throw"
             /\ \A j \in 1..(i - 1) : OperandRes(j) \in FalsyRes
      /\ Arity = 0 => fx.res = "false"

C17_Witness ==
    /\ Called("or")
    /\ Arity = 2
    /\ OperandRes(1) = "throw"
    /\ OperandRes(2) = "true"
    /\ fx.res = "throw"

\* C18: and(fs) evaluates its operands in array order up to and including
\* the first one that does not return true, or(fs) up to and including the
\* first one that does not return false, and no operand after it.
RECURSIVE TracesUpTo(_, _, _)
TracesUpTo(fs, n, u) ==
    IF n = 0 THEN <<>> ELSE TracesUpTo(fs, n - 1, u) \o Call(fs[n], u).trace

\* the operand at which a call stops, given the results that let it go on
StopAt(goOn) ==
    LET stops == {i \in 1..Arity : OperandRes(i) \notin goOn}
    IN  IF stops = {} THEN Arity
        ELSE CHOOSE i \in stops : \A j \in stops : i <= j

C18_ShortCircuit ==
    /\ Called("and") =>
         fx.trace = TracesUpTo(fx.f.args, StopAt(TruthyRes), Updates[fx.u])
    /\ Called("or") =>
         fx.trace = TracesUpTo(fx.f.args, StopAt(FalsyRes), Updates[fx.u])

C18_Witness ==
    /\ Called("and")
    /\ Arity = 2
    /\ OperandRes(1) = "false"
    /\ OperandRes(2) = "throw"
    /\ fx.res = "false"
    /\ fx.trace = <<"false">>

\* C19: not(f) returns true where f returns false and false where f returns
\* true (and the negation of the truthiness of any other result); on an
\* update where f returns a boolean, not(not(f)) returns what f returns.
C19_Negation ==
    Called("not") =>
      /\ OperandRes(1) \in TruthyRes => fx.res = "false"
      /\ OperandRes(1) \in FalsyRes => fx.res = "true"
      /\ fx.f.args[1].type = "not" =>
           LET r == Call(fx.f.args[1].args[1], Updates[fx.u]).res
           IN  r \in {"true", "false"} => fx.res = r

C19_Witness ==
    /\ Called("not")
    /\ fx.f.args[1].type = "not"
    /\ fx.f.args[1].args[1].type = "custom"
    /\ fx.res = "true"

\* C20 (as claimed): the compatibleEvents of and(fs) and or(fs) is the union
\* of the compatibleEvents of the operands, and that of not(f) is that of f.
C20_TagPropagated ==
    /\ (fx.f.type \in {"and", "or"} /\ \A i \in 1..Arity : fx.f.args[i].tagged)
         => /\ fx.f.tagged
            /\ fx.f.tag = UNION {fx.f.args[i].tag : i \in 1..Arity}
    /\ fx.f.type = "not"
         => /\ fx.f.tagged = fx.f.args[1].tagged
            /\ fx.f.tag = fx.f.args[1].tag

\* ------------------------------------------------- primitives, registered
\* the primitive filters callers register with
RegPool == { text(N_start), command(N_start), callbackData(N_start),
             chatType(<<"group">>), newChatMembers, leftChatMember }

\* fx.f = filters.<factory>(...)
MakeFilter(f) == Built(f)

NextPrimReg ==
    \/ \E f \in RegPool : MakeFilter(f)
    \/ \E e \in RegKinds : fx.f # NoFilter /\ OnUpdate(e, fx.f)

SpecPrimReg == Init /\ [][NextPrimReg]_vars

\* the kinds each primitive filter is documented to be compatible with
DocumentedKinds ==
    [text |-> {"message"}, textMatches |-> {"message"},
     command |-> {"message"}, callbackData |-> {"callback_query"},
     callbackDataMatches |-> {"callback_query"},
     chatType |-> {"message", "callback_query", "chat_member"},
     newChatMembers |-> {"chat_member"}, leftChatMember |-> {"chat_member"}]

\* C21 (as claimed): a primitive filter carries its documented kinds, so
\* that onUpdate rejects it for any other kind: no entry of the registry
\* holds a primitive filter under a kind outside its documented kinds.
C21_PrimitiveUnderDocumentedKind ==
    \A kind \in DOMAIN handlers : \A i \in 1..Len(handlers[kind]) :
      handlers[kind][i].filter.type \in DOMAIN DocumentedKinds =>
        /\ handlers[kind][i].filter.tagged
        /\ handlers[kind][i].filter.tag =
             DocumentedKinds[handlers[kind][i].filter.type]
        /\ kind \in DocumentedKinds[handlers[kind][i].filter.type]

\* ------------------------------------------------- primitives, on text
MaxTextLen == 3    \* length of the generated message texts

TextChars == {"/", "s", "S", "@", " "}
N_s == <<"s">>
Texts == UNION {[1..n -> TextChars] : n \in 0..MaxTextLen}
         \cup {T_start, T_startBot, T_startArg, T_starting, T_plain}
         \cup {<<"/", "s", "@", "s">>, <<"/", "s", "@", "s", " ", "s">>,
               <<"/", "s", "@", "s", "/">>, <<"/", "s", "@", "S", "s">>,
               <<"/", "s", "@", " ", "s">>, <<" ", "/", "s", " ">>}

\* a message of a private chat: with the text t, and without text
TextMsg(t) == [Full(Msg(t, "private")) EXCEPT !.chatId = 1, !.fromId = 1]
BareMsg == [TextMsg(<<>>) EXCEPT !.hasText = FALSE]

TextUpdates ==
    {<<F("update_id", IdVal), F("message", TextMsg(t))>> : t \in Texts}
    \cup { <<F("update_id", IdVal), F("message", BareMsg)>>,
           <<F("update_id", IdVal), F("message", Falsy)>>,
           <<F("update_id", IdVal), F("callback_query", Full(Cbq))>>,
           <<F("update_id", IdVal)>> }

TextPool == { text(N_s), text(<<"/", "s">>),
              command(N_s), command(N_start) }

\* fx.f(update) for a primitive filter
CallPrimitive(u) ==
    /\ fx.f # NoFilter
    /\ LET r == Call(fx.f, u)
       IN  fx' = [fx EXCEPT !.res = r.res, !.trace = r.trace, !.upd = u]
    /\ UNCHANGED <<handlers, regResult, calls, running, contexts, peer, objs>>

NextText ==
    \/ \E f \in TextPool : MakeFilter(f)
    \/ \E u \in TextUpdates : CallPrimitive(u)

SpecText == Init /\ [][NextText]_vars

Applied(type) == fx.f.type = type /\ fx.res # "-"
\* the text of the message of the update of the call, when it has one
HasMsgText == Has(fx.upd, "message") /\ Get(fx.upd, "message").hasText
MsgText == Get(fx.upd, "message").text

\* C22: text(s) returns true exactly on an update with a message whose text
\* is s, character for character, and false, never throwing, otherwise.
C22_TextExact ==
    Applied("text") =>
      /\ fx.res \in {"true", "false"}
      /\ fx.res = "true" <=>
           /\ HasMsgText
           /\ Len(MsgText) = Len(fx.f.name)
           /\ \A i \in 1..Len(MsgText) : MsgText[i] = fx.f.name[i]

C22_Witness ==
    /\ Applied("text")
    /\ Len(fx.f.name) = 2
    /\ fx.res = "true"

\* C23: command(name) returns true exactly when the text is "/" and name,
\* then optionally "@" and a username, then whitespace or the end; it is
\* false on an update without a textual message.  For name = "start":
\* "/start", "/start@mybot", "/start extra text" match, "/starting" and
\* "start" do not.
C23_CommandShape ==
    Applied("command") =>
      LET pre == <<"/">> \o fx.f.name
          p   == Len(pre)
          t   == MsgText
          Mention(k) ==
            \/ k = 0
            \/ /\ k >= 2
               /\ t[p + 1] = "@"
               /\ \A j \in (p + 2)..(p + k) : t[j] \in WordChars
      IN  /\ fx.res \in {"true", "false"}
          /\ fx.res = "true" <=>
               /\ HasMsgText
               /\ Len(t) >= p
               /\ \A j \in 1..p : t[j] = pre[j]
               /\ \E k \in 0..(Len(t) - p) :
                    /\ Mention(k)
                    /\ p + k = Len(t) \/ t[p + k + 1] \in SpaceChars
          /\ (fx.f.name = N_start /\ HasMsgText) =>
               /\ t \in {T_start, T_startBot, T_startArg} => fx.res = "true"
               /\ t \in {T_starting, T_plain} => fx.res = "false"

C23_Witness ==
    /\ Applied("command")
    /\ fx.f.name = N_start
    /\ HasMsgText
    /\ MsgText = T_startBot
    /\ fx.res = "true"

\* ------------------------------------------------- primitives, on chats
\* message: chat (type, id; "none": no chat member), from, new_chat_members
\* (their number), left_chat_member
ChatMsg(type, cid, hasFrom, fid, nm, lm) ==
    [Full(Msg(<<>>, type)) EXCEPT !.hasText = FALSE, !.chatId = cid,
       !.from = hasFrom, !.fromId = fid, !.newMembers = nm, !.leftMember = lm]
\* callback_query: its message (and the chat of it), from
ChatCbq(hasMsg, type, cid, fid) ==
    [Full(Cbq) EXCEPT !.hasMessage = hasMsg, !.chat = type, !.chatId = cid,
       !.fromId = fid]
\* chat_member / my_chat_member: chat, from, old and new status
ChatMember(type, cid, fid, old, new, isMember) ==
    [Full(Member) EXCEPT !.chat = type, !.chatId = cid, !.fromId = fid,
       !.oldStatus = old, !.newStatus = new, !.isMember = isMember]

Opt(key, vals) == {<<>>} \cup {<<F(key, v)>> : v \in vals}

ChatUpdates ==
    { <<F("update_id", IdVal)>> \o m \o q \o c \o y :
        m \in Opt("message",
                { ChatMsg("private", 1, TRUE, 1, 0, FALSE),
                  ChatMsg("group", 2, FALSE, 0, 0, FALSE),
                  ChatMsg("supergroup", 2, TRUE, 2, 1, FALSE),
                  ChatMsg("group", 1, TRUE, 2, 0, TRUE),
                  ChatMsg("none", 0, TRUE, 1, 0, FALSE) }),
        q \in Opt("callback_query",
                { ChatCbq(FALSE, "none", 0, 1),
                  ChatCbq(TRUE, "group", 2, 2) }),
        c \in Opt("chat_member",
                { ChatMember("supergroup", 1, 1, "left", "member", TRUE),
                  ChatMember("supergroup", 1, 2, "member", "kicked", TRUE),
                  ChatMember("group", 2, 1, "member", "left", TRUE),
                  ChatMember("group", 2, 2, "restricted", "member", FALSE) }),
        y \in Opt("my_chat_member",
                { ChatMember("channel", 2, 2, "left", "administrator", TRUE) }) }

ChatPool == { chatType(<<"group">>), chatType(<<"private">>),
              chatType(<<"group", "supergroup">>),
              chatId(Num(1)), chatId(Arr(<<1, 2>>)),
              userId(Num(1)), userId(Num(2)), userId(Arr(<<1, 2>>)),
              newChatMembers, leftChatMember }

NextChat ==
    \/ \E f \in ChatPool : MakeFilter(f)
    \/ \E u \in ChatUpdates : CallPrimitive(u)

SpecChat == Init /\ [][NextChat]_vars

Range(sq) == {sq[i] : i \in DOMAIN sq}
Upd(key) == Get(fx.upd, key)

\* the value the claims resolve the chat from: message, else
\* callback_query.message, else chat_member
ClaimedChatHolder ==
    IF Has(fx.upd, "message") THEN "message"
    ELSE IF Has(fx.upd, "callback_query") /\ Upd("callback_query").hasMessage
         THEN "callback_query"
    ELSE IF Has(fx.upd, "chat_member") THEN "chat_member"
    ELSE "none"
ChatResolvable ==
    ClaimedChatHolder # "none" /\ Upd(ClaimedChatHolder).chat # "none"

\* C24 (as claimed): chatType(...types) is true exactly when the chat
\* resolved from message, callback_query.message or chat_member has a type
\* among the given types, and false when the update has none of the three
\* (stated for updates whose deciding value has its chat member).
C24_ChatTypeInSet ==
    (/\ Applied("chatType")
     /\ ~Has(fx.upd, "my_chat_member")
     /\ ClaimedChatHolder # "none" => Upd(ClaimedChatHolder).chat # "none") =>
      /\ fx.res \in {"true", "false"}
      /\ fx.res = "true" <=>
           /\ ChatResolvable
           /\ Upd(ClaimedChatHolder).chat \in Range(fx.f.extra)

\* the ids an argument stands for: the id itself, or the elements of the array
Ids(arg) == IF arg.t = "number" THEN {arg.v} ELSE Range(arg.v)

ClaimedUserHolder ==
    IF Has(fx.upd, "message") THEN "message"
    ELSE IF Has(fx.upd, "callback_query") THEN "callback_query"
    ELSE IF Has(fx.upd, "chat_member") THEN "chat_member"
    ELSE "none"

\* C25 (as claimed): chatId / userId, given one id or an array of ids, is
\* true exactly when the id resolved from the update is that id or an
\* element of the array.
C25_IdOrArray ==
    /\ (Applied("chatId") /\ ChatResolvable) =>
         (fx.res = "true" <=> Upd(ClaimedChatHolder).chatId \in Ids(fx.f.extra))
    /\ (Applied("userId") /\ ClaimedUserHolder # "none"
          /\ Upd(ClaimedUserHolder).from) =>
         (fx.res = "true" <=> Upd(ClaimedUserHolder).fromId \in Ids(fx.f.extra))

\* C26: userId(id) decides by message.from when the update has a message,
\* else by callback_query.from, else by chat_member.from; it never throws,
\* and it is false when the deciding value has no `from` or the update has
\* none of these values.
C26_UserResolution ==
    Applied("userId") =>
      /\ fx.res \in {"true", "false"}
      /\ (ClaimedUserHolder # "none" /\ fx.f.extra.t = "number") =>
           (fx.res = "true" <=>
              /\ Upd(ClaimedUserHolder).from
              /\ Upd(ClaimedUserHolder).fromId = fx.f.extra.v)
      /\ (ClaimedUserHolder # "none" /\ ~Upd(ClaimedUserHolder).from) =>
           fx.res = "false"
      /\ (ClaimedUserHolder = "none" /\ ~Has(fx.upd, "my_chat_member")) =>
           fx.res = "false"

\* a message without from decides, although callback_query.from is the user
C26_Witness ==
    /\ Applied("userId")
    /\ fx.f.extra = Num(1)
    /\ Has(fx.upd, "message")
    /\ ~Upd("message").from
    /\ Has(fx.upd, "callback_query")
    /\ Upd("callback_query").fromId = 1
    /\ fx.res = "false"

\* C27 (as claimed): on a chat_member update newChatMembers() is true
\* exactly when old is left or kicked (or restricted with is_member = false)
\* and new is member, administrator or restricted; leftChatMember() exactly
\* when old is member, administrator or restricted and new is left.
C27_TransitionClassified ==
    LET cm   == Upd("chat_member")
        In   == {"member", "administrator", "restricted"}
        Join == /\ \/ cm.oldStatus \in {"left", "kicked"}
                   \/ cm.oldStatus = "restricted" /\ ~cm.isMember
                /\ cm.newStatus \in In
        Left == cm.oldStatus \in In /\ cm.newStatus = "left"
    IN  /\ Applied("newChatMembers") =>
           (fx.res = "true" <=> Has(fx.upd, "chat_member") /\ Join)
        /\ Applied("leftChatMember") =>
           (fx.res = "true" <=> Has(fx.upd, "chat_member") /\ Left)

\* ------------------------------------------------- filters over a RegExp
MaxObjects == 2    \* objects allocated on the heap

\* new RegExp(pat, flags): pat is a literal pattern, global the g flag
RegExpObject(pat, global) ==
    [kind |-> "regexp", pat |-> pat, global |-> global, lastIndex |-> 0]

\* the start (from 0) of the first occurrence of pat in str at or after
\* `from`; -1 when there is none
IndexOf(str, pat, from) ==
    LET at == {i \in from..(Len(str) - Len(pat)) :
                 SubSeq(str, i + 1, i + Len(pat)) = pat}
    IN  IF at = {} THEN 0 - 1 ELSE CHOOSE i \in at : \A j \in at : i <= j

\* regex.test(str): the result and the lastIndex the object is left with.
\* With the g flag the search starts at lastIndex, which a match moves to
\* its end and a failure resets; without it lastIndex is not used.
RegexTest(re, str) ==
    LET from == IF re.global THEN re.lastIndex ELSE 0
        i    == IndexOf(str, re.pat, from)
    IN  IF i < 0
        THEN [res |-> "false", lastIndex |-> IF re.global THEN 0 ELSE re.lastIndex]
        ELSE [res |-> "true",
              lastIndex |-> IF re.global THEN i + Len(re.pat) ELSE re.lastIndex]

\* textMatches(regex), callbackDataMatches(regex): re is the place of the
\* RegExp object on the heap (the closure holds a reference to it)
textMatches(re) == Filter("textMatches", FALSE, {}, "-", <<>>, re)
callbackDataMatches(re) == Filter("callbackDataMatches", FALSE, {}, "-", <<>>, re)

RegexPatterns == {<<"s">>, <<"/", "s">>}
RegexUpdates ==
    {<<F("update_id", IdVal), F("message", TextMsg(t))>> :
        t \in {<<>>, <<"s">>, <<"/", "s">>, <<"s", "s">>}}
    \cup {<<F("update_id", IdVal),
            F("callback_query", [Full(Cbq) EXCEPT !.hasData = TRUE, !.data = t])>> :
        t \in {<<"s">>, <<"S">>}}
    \cup {<<F("update_id", IdVal), F("message", BareMsg)>>,
          <<F("update_id", IdVal), F("callback_query", Full(Cbq))>>}

IsRegExp(id) == id \in 1..Len(objs.heap) /\ objs.heap[id].kind = "regexp"

\* const regex = new RegExp(...)
NewRegExp(pat, global) ==
    /\ Len(objs.heap) < MaxObjects
    /\ objs' = [objs EXCEPT !.heap = Append(@, RegExpObject(pat, global))]
    /\ UNCHANGED <<handlers, regResult, calls, running, contexts, peer, fx>>

\* the string the filter hands to regex.test, <<>> with found = FALSE when
\* one of the guards before the test fails
TestedString(f, u) ==
    IF f.type = "textMatches"
    THEN [found |-> Has(u, "message") /\ Get(u, "message").hasText,
          str |-> Get(u, "message").text]
    ELSE [found |-> Has(u, "callback_query") /\ Get(u, "callback_query").hasData,
          str |-> IF Has(u, "callback_query")
                  THEN Get(u, "callback_query").data ELSE <<>>]

\* fx.f(update) for textMatches / callbackDataMatches
CallRegexFilter(u) ==
    /\ fx.f.type \in {"textMatches", "callbackDataMatches"}
    /\ LET s == TestedString(fx.f, u)
           r == RegexTest(objs.heap[fx.f.extra], s.str)
       IN  IF s.found
           THEN /\ fx' = [fx EXCEPT !.res = r.res, !.upd = u]
                /\ objs' = [objs EXCEPT !.heap[fx.f.extra].lastIndex = r.lastIndex]
           ELSE /\ fx' = [fx EXCEPT !.res = "false", !.upd = u]
                /\ UNCHANGED objs
    /\ UNCHANGED <<handlers, regResult, calls, running, contexts, peer>>

NextRegex ==
    \/ \E pat \in RegexPatterns, g \in BOOLEAN : NewRegExp(pat, g)
    \/ \E id \in 1..Len(objs.heap) :
         IsRegExp(id) /\ MakeFilter(textMatches(id))
    \/ \E id \in 1..Len(objs.heap) :
         IsRegExp(id) /\ MakeFilter(callbackDataMatches(id))
    \/ \E u \in RegexUpdates : CallRegexFilter(u)

SpecRegex == Init /\ [][NextRegex]_vars

\* C28 (as claimed): a filter keeps no state between evaluations: evaluated
\* again on the same update, the filter (or one built by the same factory
\* from the same arguments, the same RegExp object included) returns the
\* same result as before.
C28_Step ==
    (fx.res # "-" /\ fx'.res # "-" /\ fx'.f = fx.f /\ fx'.upd = fx.upd)
      => fx'.res = fx.res
C28_SameResultAgain == [][C28_Step]_vars

\* ------------------------------------------------- filters as objects
\* a function object: fn is the function with its own compatibleEvents
\* (tagged / tag), args the places on the heap of the functions it closes over
FunctionObject(fn, args) == [kind |-> "function", fn |-> fn, args |-> args]

\* the place of the object a function expression allocates, given the
\* number of objects allocated so far
NewObjectId(n) == n + 1

IsFunction(id) == id \in 1..Len(objs.heap) /\ objs.heap[id].kind = "function"
Functions == {id \in 1..Len(objs.heap) : IsFunction(id)}
FunctionSeqs == UNION {[1..n -> Functions] : n \in 0..MaxArgs}

ObjectPreds == {"truthy", "hasMessage"}
ObjectUpdateIds == {1, 2}

\* the caller writes a predicate: (update) => ...
NewFunction(pred) ==
    /\ Len(objs.heap) < MaxObjects
    /\ objs' = [objs EXCEPT !.heap = Append(@, FunctionObject(Custom(pred), <<>>))]
    /\ UNCHANGED <<handlers, regResult, calls, running, contexts, peer, fx>>

\* a factory that returns a new arrow function closing over its arguments
Allocate(op, fn, ids) ==
    /\ Len(objs.heap) < MaxObjects
    /\ objs' = [heap |-> Append(objs.heap, FunctionObject(fn, ids)),
                made |-> [op |-> op, args |-> ids,
                          result |-> NewObjectId(Len(objs.heap))]]
    /\ UNCHANGED <<handlers, regResult, calls, running, contexts, peer, fx>>

\* filters.custom(filterFn): return filterFn
ApplyCustom(id) ==
    /\ objs' = [objs EXCEPT !.made = [op |-> "custom", args |-> <<id>>,
                                      result |-> id]]
    /\ UNCHANGED <<handlers, regResult, calls, running, contexts, peer, fx>>

ApplyAnd(ids) ==
    Allocate("and", and([i \in DOMAIN ids |-> objs.heap[ids[i]].fn]), ids)
ApplyOr(ids) ==
    Allocate("or", or([i \in DOMAIN ids |-> objs.heap[ids[i]].fn]), ids)
ApplyNot(id) == Allocate("not", not(objs.heap[id].fn), <<id>>)

\* result.compatibleEvents = kinds, on the filter a factory returned last
SetCompatibleEvents(kinds) ==
    /\ objs.made.result # 0
    /\ objs' = [objs EXCEPT !.heap[objs.made.result].fn.tagged = TRUE,
                            !.heap[objs.made.result].fn.tag = kinds]
    /\ UNCHANGED <<handlers, regResult, calls, running, contexts, peer, fx>>

\* result(update), on the filter a factory returned last
CallResult(uid) ==
    /\ objs.made.result # 0
    /\ LET f == objs.heap[objs.made.result].fn
           r == Call(f, Updates[uid])
       IN  fx' = [f |-> f, u |-> uid, res |-> r.res, trace |-> r.trace,
                  upd |-> Updates[uid]]
    /\ UNCHANGED <<handlers, regResult, calls, running, contexts, peer, objs>>

NextObjects ==
    \/ \E pred \in ObjectPreds : NewFunction(pred)
    \/ \E id \in Functions : ApplyCustom(id)
    \/ \E ids \in FunctionSeqs : ApplyAnd(ids)
    \/ \E ids \in FunctionSeqs : ApplyOr(ids)
    \/ \E id \in Functions : ApplyNot(id)
    \/ SetCompatibleEvents({"message"})
    \/ \E uid \in ObjectUpdateIds : CallResult(uid)

SpecObjects == Init /\ [][NextObjects]_vars

\* C29 (as claimed): a combinator (and, or, not, custom) leaves every
\* operand as it was and returns a newly allocated filter, a different
\* object from each operand; setting compatibleEvents on the result leaves
\* the compatibleEvents of every operand as it was.
C29_Step ==
    /\ objs'.made # objs.made =>
         /\ \A id \in 1..Len(objs.heap) : objs'.heap[id] = objs.heap[id]
         /\ objs'.made.result > Len(objs.heap)
         /\ \A i \in DOMAIN objs'.made.args :
              objs'.made.result # objs'.made.args[i]
    /\ (objs'.made = objs.made /\ Len(objs'.heap) = Len(objs.heap)) =>
         \A i \in DOMAIN objs.made.args :
           objs'.heap[objs.made.args[i]] = objs.heap[objs.made.args[i]]
C29_OperandsUntouched == [][C29_Step]_vars

\* C30 (as claimed): a filter returned by and, or, not or custom returns a
\* boolean on every update.
C30_BooleanResult ==
    (objs.made.result # 0 /\ fx.res # "-") => fx.res \in {"true", "false"}

\* ------------------------------------------------- membership changes
Statuses == {"creator", "administrator", "member", "restricted", "left",
             "kicked"}
Changes == {"join", "leave", "promote", "demote"}

\* a chat_member / my_chat_member value without old_chat_member
BrokenMember == [ChatMember("group", 1, 1, "none", "none", TRUE)
                   EXCEPT !.member = FALSE]

MemberUpdates ==
    { <<F("update_id", IdVal),
        F(key, ChatMember("group", 1, 1, old, new, TRUE))>> :
        key \in {"chat_member", "my_chat_member"},
        old \in Statuses, new \in Statuses }
    \cup { <<F("update_id", IdVal),
             F("chat_member", ChatMember("group", 1, 1, "left", "member", TRUE)),
             F("my_chat_member",
               ChatMember("group", 1, 1, "administrator", "member", TRUE))>>,
           <<F("update_id", IdVal), F("chat_member", BrokenMember)>>,
           <<F("update_id", IdVal), F("message", BareMsg)>>,
           <<F("update_id", IdVal)>> }

NextMember ==
    \/ \E c \in Changes : MakeFilter(memberStatusChange(c))
    \/ \E u \in MemberUpdates : CallPrimitive(u)

SpecMember == Init /\ [][NextMember]_vars

\* the membership record the filter classifies, when the update has one
HasRecord == Has(fx.upd, "chat_member") \/ Has(fx.upd, "my_chat_member")
Record == IF Has(fx.upd, "chat_member") THEN Upd("chat_member")
          ELSE Upd("my_chat_member")

\* C33: memberStatusChange(c) is true exactly when the old and new status of
\* the chat_member (else my_chat_member) record make the transition c: join,
\* leave, promote, demote as tabulated; at most one of the four holds for a
\* record; the filter is false on an update without a record.
C33_StatusChangeTable ==
    Applied("memberStatusChange") =>
      LET old == Record.oldStatus
          new == Record.newStatus
          In  == {"member", "administrator", "restricted"}
          Table ==
            [join    |-> old \in {"left", "kicked"} /\ new \in In,
             leave   |-> old \in In /\ new \in {"left", "kicked"},
             promote |-> old \in {"member", "restricted"} /\ new = "administrator",
             demote  |-> old = "administrator" /\ new \in {"member", "restricted"}]
      IN  /\ ~HasRecord => fx.res = "false"
          /\ (HasRecord /\ Record.member) =>
               /\ fx.res \in {"true", "false"}
               /\ fx.res = "true" <=> Table[fx.f.extra]
               /\ Cardinality({c \in Changes :
                     Call(memberStatusChange(c), fx.upd).res = "true"}) <= 1

C33_Witness ==
    /\ Applied("memberStatusChange")
    /\ fx.f.extra = "leave"
    /\ Has(fx.upd, "my_chat_member")
    /\ ~Has(fx.upd, "chat_member")
    /\ Record.oldStatus = "restricted"
    /\ Record.newStatus = "kicked"
    /\ fx.res = "true"

\* ---------------------------------- ChatMemberUpdateContextImpl methods
\* this.memberUpdate of the context built for a chat_member update
memberUpdate(u) ==
    [oldStatus |-> Get(u, "chat_member").oldStatus,
     newStatus |-> Get(u, "chat_member").newStatus]

Present == {"member", "administrator", "creator"}

isJoining(ctx) ==
    /\ ctx.oldStatus \notin Present
    /\ ctx.newStatus \in Present

isLeaving(ctx) ==
    /\ ctx.oldStatus \in Present
    /\ ctx.newStatus \notin Present

isPromoted(ctx) ==
    \/ ctx.oldStatus = "member" /\ ctx.newStatus \in {"administrator", "creator"}
    \/ ctx.oldStatus = "administrator" /\ ctx.newStatus = "creator"

isDemoted(ctx) ==
    \/ ctx.oldStatus = "creator" /\ ctx.newStatus \in {"administrator", "member"}
    \/ ctx.oldStatus = "administrator" /\ ctx.newStatus = "member"

\* the context method that goes with a statusChange name
ContextSays(change, ctx) ==
    CASE change = "join"    -> isJoining(ctx)
      [] change = "leave"   -> isLeaving(ctx)
      [] change = "promote" -> isPromoted(ctx)
      [] change = "demote"  -> isDemoted(ctx)

\* C36: on every chat_member update, memberStatusChange(c) is true exactly
\* when the matching method of the ChatMemberUpdateContext built for that
\* update (isJoining, isLeaving, isPromoted, isDemoted) is true.
C36_FilterAgreesWithContext ==
    ( /\ Applied("memberStatusChange")
      /\ Has(fx.upd, "chat_member")
      /\ Upd("chat_member").member
      /\ ContextVariant(fx.upd) = "chat_member" ) =>
      (fx.res = "true" <=> ContextSays(fx.f.extra, memberUpdate(fx.upd)))

\* ------------------------------------------------- command handlers
\* the entry was registered by onCommand(name, ...)
IsCommandEntry(entry, name) ==
    entry.filter.type \in {"command", "combined"} /\ entry.filter.name = name

\* C31 (as claimed): a handler registered with onCommand(name, h) that is
\* invoked for a message update is invoked exactly once in the call, with a
\* context whose chatId is the id of the message's chat and whose
\* message.command is name.
C31_CommandContext ==
    \A c \in CallIds :
      LET cr == calls[c]
          m  == Full(Get(Updates[cr.u], "message"))
      IN  \A p \in 1..Len(cr.log) :
            ( /\ cr.log[p].res \in InvokedRes
              /\ IsCommandEntry(handlers[cr.log[p].kind][cr.log[p].idx], N_start) )
            => /\ Cardinality(InvokedRecs(cr, cr.log[p].kind, cr.log[p].idx)) = 1
               /\ contexts[cr.log[p].ctx].message.chatId = m.chatId
               /\ contexts[cr.log[p].ctx].message.command = Defined(N_start)

\* ------------------------------------------------- constructor update
IsCtorCall(c) == "ctor" \in DOMAIN calls[c]

\* C32 (as claimed): the processUpdate call made by new Bot(token, update)
\* dispatches the update to the handlers defined for the bot: once it has
\* resolved, every handler registered for a populated kind of the update
\* whose filter passes has been invoked in it; and the constructor does not
\* throw, whatever the update lacks (a rejected call is the constructor's
\* only when createContext threw, and the Bot goes on accepting calls).
C32_ConstructorDispatches ==
    \A c \in CallIds :
      IsCtorCall(c) =>
        LET cr == calls[c]
        IN  cr.status = "resolved" =>
              \A kind \in PresentKinds(Updates[cr.u]) :
                \A idx \in 1..Len(List(handlers, kind)) :
                  Passes(kind, idx, cr.u) => InvokedRecs(cr, kind, idx) # {}

\* ------------------------------------------------- the dispatch loop
Log(c) == calls[c].log
HasHung(c) == \E p \in 1..Len(Log(c)) : Log(c)[p].res = "hung"

\* C34: there is no cancellation or timeout.  A handler that never completes
\* is the last thing its call does: no entry after it is visited, the call
\* stays suspended (it is never resolved nor rejected) and nothing of the
\* call changes any more.
C34_StalledForever ==
    \A c \in CallIds :
      \A p \in 1..Len(Log(c)) :
        Log(c)[p].res = "hung" =>
          /\ p = Len(Log(c))
          /\ calls[c].status = "awaiting"
C34_Step ==
    \A c \in CallIds : HasHung(c) => calls'[c] = calls[c]
C34_HungHandlerStalls == []C34_StalledForever /\ [][C34_Step]_vars

C34_Witness ==
    \E c \in CallIds :
      /\ HasHung(c)
      /\ LET last == Log(c)[Len(Log(c))]
         IN  /\ Len(handlers[last.kind]) > last.idx
             /\ handlers[last.kind][last.idx + 1].filter.type = "none"
      /\ regResult = "ok"

\* C35: the kinds of a call are visited in the order of their keys on the
\* update: a record of the log never belongs to a kind whose key comes
\* before the kind of an earlier record, and when an entry of another kind
\* is visited, every handler invoked before it has completed.
C35_KindsInKeyOrder ==
    \A c \in CallIds :
      LET u == Updates[calls[c].u]
      IN  \A p \in 1..Len(Log(c)), q \in 1..Len(Log(c)) :
            p < q =>
              /\ Log(c)[p].kind \in PresentKinds(u)
              /\ Log(c)[q].kind \in PresentKinds(u)
              /\ KeyPos(u, Log(c)[p].kind) <= KeyPos(u, Log(c)[q].kind)
              /\ ( /\ Log(c)[p].kind # Log(c)[q].kind
                   /\ Log(c)[p].res \in InvokedRes )
                 => Log(c)[p].res \in CompletedRes

C35_Witness ==
    \E c \in CallIds :
      LET u == Updates[calls[c].u]
      IN  \E p \in 1..Len(Log(c)), q \in 1..Len(Log(c)) :
            /\ p < q
            /\ KeyPos(u, Log(c)[p].kind) < KeyPos(u, Log(c)[q].kind)
            /\ Log(c)[p].kind = "callback_query"
            /\ Log(c)[p].res = "resolved"
            /\ Log(c)[q].res \in {"skipped", "filterThrew"} \cup InvokedRes

\* C37: registration while a call is in flight.  A call leaves the list of a
\* kind only when every entry the list then holds has been visited, so an
\* entry pushed before that moment is visited in the same call; a call
\* visits entries of its current kind only and never returns to a kind, so
\* an entry pushed later is not visited in it, and a later call starts with
\* it in its list.  Every entry is visited at most once per call, after all
\* entries before it in its list, and a call that resolves has visited every
\* entry that was registered when it started.
C37_NoSkipNoRepeat ==
    \A c \in CallIds :
      LET cr == calls[c]
      IN  /\ \A p \in 1..Len(cr.log) :
               /\ Cardinality(Recs(cr, cr.log[p].kind, cr.log[p].idx)) = 1
               /\ \A j \in 1..(cr.log[p].idx - 1) :
                    \E q \in 1..(p - 1) :
                      cr.log[q].kind = cr.log[p].kind /\ cr.log[q].idx = j
          /\ cr.status = "resolved" =>
               \A kind \in PresentKinds(Updates[cr.u]) :
                 \A idx \in 1..StartLen(cr, kind) : Recs(cr, kind, idx) # {}
C37_Step ==
    \A c \in CallIds :
      LET cr == calls[c]
          nx == calls'[c]
      IN  /\ nx.k >= cr.k
          /\ nx.k > cr.k =>
               \A idx \in 1..Len(List(handlers, cr.types[cr.k])) :
                 Recs(cr, cr.types[cr.k], idx) # {}
          /\ Len(nx.log) > Len(cr.log) =>
               /\ cr.k <= Len(cr.types)
               /\ nx.log[Len(nx.log)].kind = cr.types[cr.k]
               /\ nx.log[Len(nx.log)].idx <= Len(List(handlers, cr.types[cr.k]))
C37_RegistrationInFlight == []C37_NoSkipNoRepeat /\ [][C37_Step]_vars

C37_Witness ==
    \E c \in CallIds, d \in CallIds :
      /\ c < d
      /\ \E p \in 1..Len(Log(c)), q \in 1..Len(Log(d)) :
            /\ Log(c)[p].idx > StartLen(calls[c], Log(c)[p].kind)
            /\ Log(c)[p].res \in InvokedRes
            /\ Log(d)[q].kind = Log(c)[p].kind
            /\ Log(d)[q].idx = Log(c)[p].idx
            /\ Log(d)[q].idx <= StartLen(calls[d], Log(d)[q].kind)
            /\ Log(d)[q].res \in InvokedRes

\* C38: a filter that throws is treated like a handler that fails.  The
\* entries whose filter throws on the update are exactly those recorded as
\* a failed filter; their handler is not invoked in the call; the call is
\* not rejected, and when it has resolved every later entry of the kind and
\* every entry of the later kinds that was registered when it started has
\* been visited after the failure.
C38_FilterThrowIsolated ==
    \A c \in CallIds :
      LET cr == calls[c]
          u  == Updates[cr.u]
      IN  \A p \in 1..Len(cr.log) :
            LET r == cr.log[p]
                f == handlers[r.kind][r.idx].filter
            IN  /\ (f.type # "none" /\ EvalFilter(f, u) = "throw")
                     <=> r.res = "filterThrew"
                /\ r.res = "filterThrew" =>
                     /\ InvokedRecs(cr, r.kind, r.idx) = {}
                     /\ cr.status # "rejected"
                     /\ cr.status = "resolved" =>
                          \A kind \in PresentKinds(u) :
                            \A idx \in 1..StartLen(cr, kind) :
                              ( \/ kind = r.kind /\ idx > r.idx
                                \/ KeyPos(u, kind) > KeyPos(u, r.kind) )
                              => \E q \in Recs(cr, kind, idx) : q > p

C38_Witness ==
    \E c \in CallIds :
      /\ calls[c].status = "resolved"
      /\ \E p \in 1..Len(Log(c)), q \in 1..Len(Log(c)) :
            /\ p < q
            /\ Log(c)[p].res = "filterThrew"
            /\ Log(c)[q].res = "resolved"

\* C39: onCommand with an additional filter never raises the configuration
\* error, whatever tag the additional filter carries: the registry gets one
\* more message entry and is otherwise unchanged, and the filter stored in
\* the entry is the combination, tagged exactly {message}.
C39_Step ==
    \A f \in FilterPool \ {NoFilter} :
      OnCommand(N_start, f) =>
        LET old == List(handlers, "message")
            new == List(handlers', "message")
        IN  /\ regResult' = "ok"
            /\ Len(new) = Len(old) + 1
            /\ SubSeq(new, 1, Len(old)) = old
            /\ \A kind \in DOMAIN handlers :
                 kind # "message" => handlers'[kind] = handlers[kind]
            /\ new[Len(new)].filter.type = "combined"
            /\ new[Len(new)].filter.tagged
            /\ new[Len(new)].filter.tag = {"message"}
            /\ new[Len(new)].filter.extra = f.pred
C39_CombinedTagged ==
    \A kind \in DOMAIN handlers :
      \A idx \in 1..Len(handlers[kind]) :
        handlers[kind][idx].filter.type = "combined" =>
          /\ kind = "message"
          /\ handlers[kind][idx].filter.tagged
          /\ handlers[kind][idx].filter.tag = {"message"}
C40_UpdateIntact ==
    \A c \in CallIds : calls[c].update = Updates[calls[c].u]
C40_Step == calls' # calls => handlers' = handlers
C40_InputsNotModified == []C40_UpdateIntact /\ [][C40_Step]_vars

C40_Witness ==
    \E c \in CallIds :
      /\ calls[c].status = "resolved"
      /\ \E p \in 1..Len(Updates[calls[c].u]) :
            ~Updates[calls[c].u][p].val.truthy
      /\ \E p \in 1..Len(Log(c)), q \in 1..Len(Log(c)) :
            /\ Log(c)[p].res = "skipped"
            /\ Log(c)[q].res \in CompletedRes

====
